---- MODULE Spec2Model ----
(***************************************************************************)
(* nix-tests: the search for test files, the concurrent test-suite runner  *)
(* and the reporters.                                                      *)
(*                                                                         *)
(* TestSuiteRunner::run (src/src/runners.rs) drives one stream on a single *)
(* task:  iter(test_files) -> filter_map -> map -> buffer_unordered(n) ->  *)
(* inspect -> collect.  The external nix-instantiate processes and the     *)
(* clock are the environment.  NixTestRunner::run is the evaluation of one *)
(* file; TestSuiteReport (src/src/reports.rs) folds the collected reports. *)
(* search_test_files (src/src/files.rs) classifies the paths given to main *)
(* and the reporters (src/src/reports.rs) turn one event into a message;   *)
(* each has a specification of its own: SearchSpec and ReportSpec.         *)
(* main (src/src/main.rs) before the run, that is the command line, the    *)
(* search of .nix-tests.toml (src/src/config.rs) and the merge of the two, *)
(* is LoadSpec, the merge alone ApplySpec; MainSpec is main from the       *)
(* search of the files to the exit of the process, signals included.       *)
(* EmitSpec is the run with the calls of report() (render, then print) as  *)
(* steps of their own.                                                     *)
(***************************************************************************)
EXTENDS Integers, Sequences, FiniteSets, TLC

\* ------------------------------------------------------------- bounds
\* longest list of classified files given to run
MaxFiles == 2
\* largest num_threads
MaxThreads == 2
\* the elapsed counters saturate here (milliseconds are counted in ticks)
MaxElapsed == 1
\* longest list of paths given to search_test_files
MaxPaths == 2
\* longest chain of directories from the start of Config::search_in to the root
MaxDepth == 3

\* ------------------------------------------------------------ helpers
Last(s) == s[Len(s)]

RECURSIVE SelectIdx(_, _, _)
\* the indices lo..hi satisfying P, in increasing order
SelectIdx(P(_), lo, hi) ==
    IF lo > hi THEN <<>>
    ELSE (IF P(lo) THEN <<lo>> ELSE <<>>) \o SelectIdx(P, lo + 1, hi)

Min(S) == CHOOSE x \in S : \A y \in S : x <= y

Inc(n) == IF n < MaxElapsed THEN n + 1 ELSE MaxElapsed

\* ------------------------------------------------- files.rs: TestFile
Valid(p) == [kind |-> "Valid", path |-> p]

NotFound(p) == [kind |-> "NotFound", path |-> p]

Invalid(p) == [kind |-> "Invalid", path |-> p]

Kinds == {"Valid", "NotFound", "Invalid"}

\* the paths of a list are distinct: the entry at position i has path Path(i)
Path(i) == <<"a.nix", "b.nix", "c.nix", "d.nix", "e.nix">>[i]

\* the lists of classified files run is given: any kinds in any order
TestFileLists ==
    UNION {{[i \in 1..k |-> [kind |-> ks[i], path |-> Path(i)]] :
               ks \in [1..k -> Kinds]} : k \in 0..MaxFiles}

\* ------------------------------------ files.rs: search_test_files
\* The paths search_test_files handles are byte strings.
\* "_test.nix"
TestSuffix == <<95, 116, 101, 115, 116, 46, 110, 105, 120>>

\* "/"
Slash == <<47>>

\* "a_test.nix", "b_test.nix", "flake.nix", "missing.nix"
ATestNix == <<97>> \o TestSuffix

BTestNix == <<98>> \o TestSuffix

FlakeNix == <<102, 108, 97, 107, 101, 46, 110, 105, 120>>

MissingNix == <<109, 105, 115, 115, 105, 110, 103, 46, 110, 105, 120>>

\* the directory "d" and "d/x_test.nix", "d/y_test.nix", "d/z.nix" in it
DirD == <<100>>

DXTestNix == DirD \o Slash \o <<120>> \o TestSuffix

DYTestNix == DirD \o Slash \o <<121>> \o TestSuffix

DZNix == DirD \o Slash \o <<122, 46, 110, 105, 120>>

\* str::ends_with and str::starts_with
EndsWith(str, suffix) ==
    /\ Len(str) >= Len(suffix)
    /\ SubSeq(str, Len(str) - Len(suffix) + 1, Len(str)) = suffix

StartsWith(str, prefix) ==
    /\ Len(str) >= Len(prefix)
    /\ SubSeq(str, 1, Len(prefix)) = prefix

RECURSIVE StrLess(_, _)
\* str::cmp is Less: the byte-wise lexicographic order
StrLess(a, b) ==
    IF b = <<>> THEN FALSE
    ELSE IF a = <<>> THEN TRUE
    ELSE IF Head(a) # Head(b) THEN Head(a) < Head(b)
    ELSE StrLess(Tail(a), Tail(b))

\* A file system: the regular files and the directories that exist.
FileSystem(fl, ds) == [files |-> fl, dirs |-> ds]

\* Path::exists and Path::is_file
Exists(f, path) == path \in f.files \/ path \in f.dirs

IsFile(f, path) == path \in f.files

\* what the discovery collaborator finds in a directory (rg --files --glob
\* '*_test.nix' path, or find path -name '*_test.nix' -type f): the regular
\* files under it whose name ends with the suffix
FoundInDir(f, path) ==
    {file \in f.files : StartsWith(file, path \o Slash) /\ EndsWith(file, TestSuffix)}

\* the orders in which a set can be enumerated
Enumerations(S) ==
    {e \in [1..Cardinality(S) -> S] : \A i, j \in 1..Cardinality(S) : i # j => e[i] # e[j]}

\* files.rs 13-19
rank(tf) ==
    IF tf.kind = "Valid" THEN 2
    ELSE IF tf.kind = "NotFound" THEN 1
    ELSE 0

\* files.rs 27-33: Ord::cmp is Less
TestFileLess(a, b) ==
    \/ rank(a) < rank(b)
    \/ rank(a) = rank(b) /\ StrLess(a.path, b.path)

\* files.rs 41-45: PartialEq
TestFileEq(a, b) == rank(a) = rank(b) /\ a.path = b.path

RECURSIVE Insert(_, _)
\* tf put into a sorted sequence after the entries that are not greater
Insert(tf, sorted) ==
    IF sorted = <<>> THEN <<tf>>
    ELSE IF TestFileLess(tf, Head(sorted)) THEN <<tf>> \o sorted
    ELSE <<Head(sorted)>> \o Insert(tf, Tail(sorted))

RECURSIVE Sort(_)
\* files.rs 78: Vec::sort, a stable sort
Sort(tfs) ==
    IF tfs = <<>> THEN <<>>
    ELSE Insert(Last(tfs), Sort(SubSeq(tfs, 1, Len(tfs) - 1)))

\* mutant of Dedup: nothing is removed
Dedup_Off(tfs) == tfs

RECURSIVE Dedup(_)
\* files.rs 79: Vec::dedup removes an entry equal to the one before it
Dedup(tfs) ==
    IF Len(tfs) <= 1 THEN tfs
    ELSE IF TestFileEq(tfs[Len(tfs) - 1], Last(tfs))
    THEN Dedup(SubSeq(tfs, 1, Len(tfs) - 1))
    ELSE Append(Dedup(SubSeq(tfs, 1, Len(tfs) - 1)), Last(tfs))

\* mutant of Classify: a regular file is Valid if the suffix is anywhere
\* but at the end, Invalid otherwise
Classify_SuffixInverted(f, file, found) ==
    IF ~Exists(f, file) THEN <<NotFound(file)>>
    ELSE IF IsFile(f, file)
    THEN IF ~EndsWith(file, TestSuffix)
         THEN <<Valid(file)>>
         ELSE <<Invalid(file)>>
    ELSE [n \in 1..Len(found) |-> Valid(found[n])]

\* files.rs 57-75: the entries one path of the input pushes; found is what
\* find_files_in_dir yields for it, in the order it yields it
Classify(f, file, found) ==
    IF ~Exists(f, file) THEN <<NotFound(file)>>
    ELSE IF IsFile(f, file)
    THEN IF EndsWith(file, TestSuffix)
         THEN <<Valid(file)>>
         ELSE <<Invalid(file)>>
    ELSE [n \in 1..Len(found) |-> Valid(found[n])]

RECURSIVE Pushed(_, _, _)
\* files.rs 54-76: the Vec after the loop; found[n] is what the
\* collaborator yields for the n-th path
Pushed(f, files, found) ==
    IF files = <<>> THEN <<>>
    ELSE Pushed(f, SubSeq(files, 1, Len(files) - 1), found)
            \o Classify(f, Last(files), found[Len(files)])

\* files.rs 53-82: search_test_files, when the collaborator does not fail
search_test_files(f, files, found) == Dedup(Sort(Pushed(f, files, found)))

\* ---------------------------------- reports.rs: the report data types
None == <<>>

Some(x) == <<x>>

CheckReport(n, ok, f, loc) ==
    [name |-> n, success |-> ok, failure |-> f, location |-> loc]

TestReport(ok, p, loc, cs) ==
    [success |-> ok, path |-> p, location |-> loc, checks |-> cs]

Completed(f, ts, el) ==
    [status |-> "completed", file |-> f, tests |-> ts, elapsed |-> el]

Errored(f, err, el) ==
    [status |-> "errored", file |-> f, error |-> err, elapsed |-> el]

TimedOut(f, tmo, el) ==
    [status |-> "timed_out", file |-> f, timeout |-> tmo, elapsed |-> el]

TestSuiteReport_Reversed(rs, el) ==
    [reports |-> [k \in 1..Len(rs) |-> rs[Len(rs) + 1 - k]], elapsed |-> el]

TestSuiteReport(rs, el) == [reports |-> rs, elapsed |-> el]

TestFileNotFound(p) == [event |-> "TestFileNotFound", path |-> p]

TestFileInvalid(p) == [event |-> "TestFileInvalid", path |-> p]

TestFileCompleted(r) == [event |-> "TestFileCompleted", report |-> r]

TestSuiteCompleted(s) == [event |-> "TestSuiteCompleted", report |-> s]

\* -------------------------------- the external nix-instantiate process
\* The payload on stdout: the items of the JSON array the process printed,
\* each an object of the TestReport shape (wellformed) or something else.
Item(ok, t) == [wellformed |-> ok, test |-> t]

Payload(its) == [items |-> its]

PassCheck == CheckReport("c1", TRUE, None, "f:2")

FailCheck == CheckReport("c2", FALSE, Some("Expected: true"), "f:3")

\* the test library evaluated by nix-instantiate (NIX_TESTS_LIB_PATH) builds
\* each item of the payload: success is the AND of the checks
NixTest(p, loc, cs) ==
    TestReport(\A k \in 1..Len(cs) : cs[k].success, p, loc, cs)

PassTest == NixTest(<<"g", "t1">>, "f:1", <<PassCheck>>)

FailTest == NixTest(<<"t2">>, "f:4", <<PassCheck, FailCheck>>)

Stdouts ==
    {Payload(<<Item(TRUE, PassTest)>>),
     Payload(<<Item(TRUE, FailTest), Item(TRUE, PassTest)>>),
     Payload(<<Item(TRUE, PassTest), Item(FALSE, PassTest)>>)}

\* stderr is bytes: 101 and 119 are ASCII, 255 is never valid in UTF-8
Stderrs == {<<119>>, <<101, 255>>}

Output(st, so, se) == [status |-> st, stdout |-> so, stderr |-> se]

NoOutput == Output(-1, Payload(<<>>), <<>>)

\* what a process can exit with: any status with any stdout and stderr
ProcOutputs ==
    {Output(0, so, <<119>>) : so \in Stdouts}
        \cup {Output(1, Payload(<<Item(TRUE, PassTest)>>), se) : se \in Stderrs}

\* ------------------------------------- runners.rs: NixTestRunner::run
\* A String is a prefix (a literal of the source) followed by code points.
Str(pre, cps) == [prefix |-> pre, text |-> cps]

RECURSIVE FromUtf8Lossy(_)
\* String::from_utf8_lossy over the bytes of the model: an ASCII byte is its
\* own code point, an invalid byte becomes U+FFFD
FromUtf8Lossy(bytes) ==
    IF bytes = <<>> THEN <<>>
    ELSE <<(IF Head(bytes) < 128 THEN Head(bytes) ELSE 65533)>>
             \o FromUtf8Lossy(Tail(bytes))

\* serde_json::from_slice::<Vec<TestReport>> succeeds iff every item of the
\* payload has the TestReport shape
DeserializeOk(so) == \A i \in 1..Len(so.items) : so.items[i].wellformed

RECURSIVE DeserializeTests(_)
DeserializeTests(items) ==
    IF items = <<>> THEN <<>>
    ELSE <<Head(items).test>> \o DeserializeTests(Tail(items))

\* the io::Error of a failed spawn and serde's error, as code points
SpawnError == <<78>>

SerdeError == <<105>>

\* mutant of ReportOfOutput: stdout is deserialized before the exit status
\* is looked at
ReportOfOutput_StdoutFirst(file, e) ==
    IF e.proc = "spawn_failed"
    THEN Errored(file, Str("Failed to execute nix-instantiate: ", SpawnError), e.elapsed)
    ELSE IF DeserializeOk(e.out.stdout)
    THEN Completed(file, DeserializeTests(e.out.stdout.items), e.elapsed)
    ELSE IF e.out.status # 0
    THEN Errored(file, Str("", FromUtf8Lossy(e.out.stderr)), e.elapsed)
    ELSE Errored(file, Str("Failed to deserialize test report: ", SerdeError), e.elapsed)

\* runners.rs 125-148: the report of an evaluation whose output future is
\* ready.  e is the evaluation: proc "spawn_failed" is Err(io::Error), proc
\* "exited" is Ok(output).
ReportOfOutput(file, e) ==
    IF e.proc = "spawn_failed"
    THEN Errored(file, Str("Failed to execute nix-instantiate: ", SpawnError), e.elapsed)
    ELSE IF e.out.status # 0
    THEN Errored(file, Str("", FromUtf8Lossy(e.out.stderr)), e.elapsed)
    ELSE IF ~DeserializeOk(e.out.stdout)
    THEN Errored(file, Str("Failed to deserialize test report: ", SerdeError), e.elapsed)
    ELSE Completed(file, DeserializeTests(e.out.stdout.items), e.elapsed)

\* mutant of PollOutput: the deadline is looked at before the output
PollOutput_DeadlineFirst(e, tmo) ==
    IF tmo > 0 /\ e.elapsed >= tmo THEN "elapsed"
    ELSE IF e.proc \in {"exited", "spawn_failed"} THEN "ready"
    ELSE "pending"

\* runners.rs 110-123: tokio::time::timeout polls the output future first
\* and the deadline second; with timeout = 0 there is no deadline
PollOutput(e, tmo) ==
    IF e.proc \in {"exited", "spawn_failed"} THEN "ready"
    ELSE IF tmo > 0 /\ e.elapsed >= tmo THEN "elapsed"
    ELSE "pending"

\* mutant of KillOnDrop: kill_on_drop is not set
KillOnDrop_Off(proc) == proc

\* runners.rs 106: kill_on_drop(true); dropping the output future kills the
\* child it owns
KillOnDrop(proc) == IF proc = "running" THEN "killed" ELSE proc

\* runners.rs 110-148: the report an evaluation returns when it is polled
\* and not pending
ReportOf(file, e, tmo) ==
    IF PollOutput(e, tmo) = "elapsed"
    THEN TimedOut(file, tmo, e.elapsed)
    ELSE ReportOfOutput(file, e)

\* --------------------------------- reports.rs: TestSuiteReport (fold)
\* mutant of FailedChecks: only the first check of a test is looked at
FailedChecks_OnlyFirst(checks) ==
    IF checks = <<>> THEN 0
    ELSE IF Head(checks).success THEN 0 ELSE 1

RECURSIVE FailedChecks(_)
\* checks.iter().filter(|check| !check.success).count()
FailedChecks(checks) ==
    IF checks = <<>> THEN 0
    ELSE (IF Head(checks).success THEN 0 ELSE 1) + FailedChecks(Tail(checks))

RECURSIVE failed_count(_)
\* TestFileCompletedReport::failed_count over the tests
failed_count(tests) ==
    IF tests = <<>> THEN 0
    ELSE FailedChecks(Head(tests).checks) + failed_count(Tail(tests))

\* mutant of IsIssue: a timed-out file is not counted as an issue
IsIssue_TimedOutIgnored(report) ==
    IF report.status = "completed" THEN failed_count(report.tests) > 0
    ELSE IF report.status = "errored" THEN TRUE
    ELSE FALSE

\* the closure of has_issues: does this report count as an issue
IsIssue(report) ==
    IF report.status = "completed" THEN failed_count(report.tests) > 0
    ELSE IF report.status = "errored" THEN TRUE
    ELSE TRUE

\* mutant of AnyIssue: only the first report is looked at
AnyIssue_OnlyFirst(reports) == reports # <<>> /\ IsIssue(Head(reports))

RECURSIVE AnyIssue(_)
AnyIssue(reports) ==
    IF reports = <<>> THEN FALSE
    ELSE IsIssue(Head(reports)) \/ AnyIssue(Tail(reports))

\* mutant of has_issues: a summary without reports counts as an issue
has_issues_EmptyIsIssue(suite) == suite.reports = <<>> \/ AnyIssue(suite.reports)

\* reports.rs 94-100: some report is not a completed one without failures

has_issues(suite) == AnyIssue(suite.reports)

\* mutant of IsSucceeded: every completed report counts as succeeded
IsSucceeded_AnyCompleted(report) == report.status = "completed"

\* reports.rs 62-66: the filter of succeeded_files
IsSucceeded(report) ==
    IF report.status = "completed" THEN failed_count(report.tests) = 0
    ELSE IF report.status = "errored" THEN FALSE
    ELSE FALSE

\* reports.rs 72-76: the filter of failed_files
IsFailed(report) ==
    IF report.status = "completed" THEN failed_count(report.tests) > 0
    ELSE IF report.status = "errored" THEN FALSE
    ELSE FALSE

processed_files(suite) == Len(suite.reports)

succeeded_files(suite) ==
    Cardinality({k \in 1..Len(suite.reports) : IsSucceeded(suite.reports[k])})

failed_files(suite) ==
    Cardinality({k \in 1..Len(suite.reports) : IsFailed(suite.reports[k])})

errored_files(suite) ==
    Cardinality({k \in 1..Len(suite.reports) : suite.reports[k].status = "errored"})

timed_out_files(suite) ==
    Cardinality({k \in 1..Len(suite.reports) : suite.reports[k].status = "timed_out"})

\* mutant of ExitCode: main falls through to Ok(()) whatever the report
ExitCode_AlwaysOk(suite) == 0

\* main.rs 163-167 and 173: exit(1) if the report has issues, Ok(()) if not
ExitCode(suite) == IF has_issues(suite) THEN 1 ELSE 0

\* ------------------------------------------- reports.rs: report config
Config(fmt, hs, hf, he) ==
    [format |-> fmt, hide_succeeded |-> hs, hide_failed |-> hf, hide_errored |-> he]

Formats == {"Human", "Json"}

Configs == {Config(f, hs, hf, he) : f \in Formats, hs \in BOOLEAN, hf \in BOOLEAN, he \in BOOLEAN}

\* Config::default(): Format::Human and no flag set
DefaultConfig == Config("Human", FALSE, FALSE, FALSE)

\* mutant of should_hide_test_report: timed-out files have no flag
should_hide_test_report_TimedOutShown(cfg, report) ==
    IF report.status = "completed" /\ failed_count(report.tests) = 0 THEN cfg.hide_succeeded
    ELSE IF report.status = "completed" THEN cfg.hide_failed
    ELSE IF report.status = "errored" THEN cfg.hide_errored
    ELSE FALSE

\* reports.rs 27-34
should_hide_test_report(cfg, report) ==
    IF report.status = "completed" /\ failed_count(report.tests) = 0 THEN cfg.hide_succeeded
    ELSE IF report.status = "completed" THEN cfg.hide_failed
    ELSE IF report.status = "errored" THEN cfg.hide_errored
    ELSE cfg.hide_errored

\* ------------------------------------------------ reports.rs: JSON form
\* A JSON text is modelled by the value it denotes; an object is the
\* sequence of its members <<key, value>> in the order they are written.
JString(x) == [json |-> "string", value |-> x]

JNumber(n) == [json |-> "number", value |-> n]

JBool(b) == [json |-> "bool", value |-> b]

JArray(xs) == [json |-> "array", value |-> xs]

JObject(ms) == [json |-> "object", value |-> ms]

\* mutant of SerializeCheck: an absent failure is not written either way,
\* and a present one is dropped too
SerializeCheck_FailureDropped(c) ==
    JObject(<<<<"name", JString(c.name)>>, <<"success", JBool(c.success)>>,
              <<"location", JString(c.location)>>>>)

\* reports.rs 137-144: derive(Serialize) for CheckReport; failure is
\* skipped when it is None
SerializeCheck(c) ==
    JObject(<<<<"name", JString(c.name)>>, <<"success", JBool(c.success)>>>>
            \o (IF c.failure = None THEN <<>>
                ELSE <<<<"failure", JString(c.failure[1])>>>>)
            \o <<<<"location", JString(c.location)>>>>)

\* reports.rs 129-135: derive(Serialize) for TestReport
SerializeTest(t) ==
    JObject(<<<<"success", JBool(t.success)>>,
              <<"path", JArray([n \in 1..Len(t.path) |-> JString(t.path[n])])>>,
              <<"location", JString(t.location)>>,
              <<"checks", JArray([n \in 1..Len(t.checks) |-> SerializeCheck(t.checks[n])])>>>>)

\* reports.rs 103-158: derive(Serialize) for TestFileReport, tagged with
\* "status" in snake case
SerializeReport(r) ==
    IF r.status = "completed"
    THEN JObject(<<<<"status", JString("completed")>>,
                   <<"tests", JArray([n \in 1..Len(r.tests) |-> SerializeTest(r.tests[n])])>>,
                   <<"file", JString(r.file)>>,
                   <<"elapsed", JNumber(r.elapsed)>>>>)
    ELSE IF r.status = "errored"
    THEN JObject(<<<<"status", JString("errored")>>,
                   <<"file", JString(r.file)>>,
                   <<"error", JString(r.error)>>,
                   <<"elapsed", JNumber(r.elapsed)>>>>)
    ELSE JObject(<<<<"status", JString("timed_out")>>,
                   <<"file", JString(r.file)>>,
                   <<"timeout", JNumber(r.timeout)>>,
                   <<"elapsed", JNumber(r.elapsed)>>>>)

\* the member of object j with this key: None if there is none
Member(j, key) ==
    LET at == {n \in 1..Len(j.value) : j.value[n][1] = key}
    IN IF at = {} THEN None ELSE Some(j.value[Min(at)][2])

HasMember(j, key, type) ==
    /\ Member(j, key) # None
    /\ Member(j, key)[1].json = type

\* derive(Deserialize) for CheckReport: name, success and location are
\* required, failure is an Option; other members are ignored
CheckReportOk(j) ==
    /\ j.json = "object"
    /\ HasMember(j, "name", "string")
    /\ HasMember(j, "success", "bool")
    /\ HasMember(j, "location", "string")
    /\ Member(j, "failure") # None => Member(j, "failure")[1].json = "string"

DeserializeCheck(j) ==
    CheckReport(Member(j, "name")[1].value,
                Member(j, "success")[1].value,
                IF Member(j, "failure") = None THEN None
                ELSE Some(Member(j, "failure")[1].value),
                Member(j, "location")[1].value)

\* derive(Deserialize) for TestReport: the four fields are required
TestReportOk(j) ==
    /\ j.json = "object"
    /\ HasMember(j, "success", "bool")
    /\ HasMember(j, "path", "array")
    /\ \A n \in 1..Len(Member(j, "path")[1].value) :
          Member(j, "path")[1].value[n].json = "string"
    /\ HasMember(j, "location", "string")
    /\ HasMember(j, "checks", "array")
    /\ \A n \in 1..Len(Member(j, "checks")[1].value) :
          CheckReportOk(Member(j, "checks")[1].value[n])

DeserializeTest(j) ==
    LET path == Member(j, "path")[1].value
        checks == Member(j, "checks")[1].value
    IN TestReport(Member(j, "success")[1].value,
                  [n \in 1..Len(path) |-> path[n].value],
                  Member(j, "location")[1].value,
                  [n \in 1..Len(checks) |-> DeserializeCheck(checks[n])])

\* reports.rs 111-118: derive(Deserialize) for TestFileCompletedReport:
\* tests is required
CompletedReportOk(j) ==
    /\ j.json = "object"
    /\ HasMember(j, "tests", "array")
    /\ \A n \in 1..Len(Member(j, "tests")[1].value) :
          TestReportOk(Member(j, "tests")[1].value[n])

\* file and elapsed are skip_deserializing: they get String::default() and
\* u128::default() whatever the text holds
DeserializeCompleted(j) ==
    LET tests == Member(j, "tests")[1].value
    IN Completed("", [n \in 1..Len(tests) |-> DeserializeTest(tests[n])], 0)

\* ------------------------------------------------ reports.rs: reporters
\* mutant of JsonReporter_on: the summary is written as an object too
JsonReporter_on_SummaryToo(cfg, ev) ==
    IF ev.event = "TestFileCompleted"
    THEN IF should_hide_test_report(cfg, ev.report) THEN None
         ELSE Some(SerializeReport(ev.report))
    ELSE IF ev.event = "TestSuiteCompleted"
    THEN Some(JObject(<<<<"elapsed", JNumber(ev.report.elapsed)>>>>))
    ELSE None

\* reports.rs 185-195: JsonReporter::on
JsonReporter_on(cfg, ev) ==
    IF ev.event = "TestFileCompleted"
    THEN IF should_hide_test_report(cfg, ev.report) THEN None
         ELSE Some(SerializeReport(ev.report))
    ELSE None

\* A human message is the sequence of the fragments format! puts together.
\* The lines of one check (reports.rs 217-231): "v" and "x" stand for the
\* check mark and the cross; a failure text is one line.
FormatCheck(path, check) ==
    IF check.success THEN <<"v ", path, " -> ", check.name, "\n">>
    ELSE <<"x ", path, " -> ", check.name, "\n">>
         \o (IF check.failure # None
             THEN <<"    Failure:\n", "      ", check.failure[1], "\n",
                    "      at ", check.location, "\n">>
             ELSE <<"    Failed at ", check.location, "\n">>)

RECURSIVE FormatChecks(_, _)
FormatChecks(path, checks) ==
    IF checks = <<>> THEN <<>>
    ELSE FormatCheck(path, Head(checks)) \o FormatChecks(path, Tail(checks))

RECURSIVE FormatTests(_)
FormatTests(tests) ==
    IF tests = <<>> THEN <<>>
    ELSE FormatChecks(Head(tests).path, Head(tests).checks) \o FormatTests(Tail(tests))

\* reports.rs 207-252: HumanReporter::format_report
format_report(r) ==
    <<"File: ", r.file, " (", r.elapsed, "ms)\n">>
    \o (IF r.status = "completed"
        THEN FormatTests(r.tests)
             \o (IF failed_count(r.tests) > 0
                 THEN <<"FAILED (", failed_count(r.tests), " failed)\n">> ELSE <<>>)
             \o <<"\n">>
        ELSE IF r.status = "errored"
        THEN <<"ERROR: ", r.error, "\n">>
        ELSE <<"TIMEOUT: Exceeded ", r.timeout, "ms limit\n", "\n">>)

\* mutant of FormatSuite: the line of the failed files comes before the
\* line of the errored files
FormatSuite_FailedFirst(suite) ==
    IF processed_files(suite) = 0 THEN <<"No test files found\n">>
    ELSE IF failed_files(suite) = 0 /\ errored_files(suite) = 0 /\ timed_out_files(suite) = 0
    THEN <<"All tests passed (", suite.elapsed, "ms)\n">>
    ELSE <<succeeded_files(suite), " file(s) succeeded\n">>
         \o (IF failed_files(suite) > 0
             THEN <<failed_files(suite), " file(s) failed\n">> ELSE <<>>)
         \o (IF errored_files(suite) > 0
             THEN <<errored_files(suite), " file(s) had errors\n">> ELSE <<>>)
         \o (IF timed_out_files(suite) > 0
             THEN <<timed_out_files(suite), " file(s) timed out\n">> ELSE <<>>)
         \o <<"Total time: ", suite.elapsed, "ms\n">>

\* reports.rs 271-301: the summary of the suite
FormatSuite(suite) ==
    IF processed_files(suite) = 0 THEN <<"No test files found\n">>
    ELSE IF failed_files(suite) = 0 /\ errored_files(suite) = 0 /\ timed_out_files(suite) = 0
    THEN <<"All tests passed (", suite.elapsed, "ms)\n">>
    ELSE <<succeeded_files(suite), " file(s) succeeded\n">>
         \o (IF errored_files(suite) > 0
             THEN <<errored_files(suite), " file(s) had errors\n">> ELSE <<>>)
         \o (IF failed_files(suite) > 0
             THEN <<failed_files(suite), " file(s) failed\n">> ELSE <<>>)
         \o (IF timed_out_files(suite) > 0
             THEN <<timed_out_files(suite), " file(s) timed out\n">> ELSE <<>>)
         \o <<"Total time: ", suite.elapsed, "ms\n">>

\* mutant of HumanReporter_on: the summary is hidden when all flags are set
HumanReporter_on_SummaryHidden(cfg, ev) ==
    IF ev.event = "TestFileNotFound"
    THEN Some(<<"Warning: '", ev.path, "' is not found, skipping.\n">>)
    ELSE IF ev.event = "TestFileInvalid"
    THEN Some(<<"Warning: '", ev.path, "' is not a test file, skipping.\n">>)
    ELSE IF ev.event = "TestFileCompleted"
    THEN IF should_hide_test_report(cfg, ev.report) THEN None
         ELSE Some(format_report(ev.report))
    ELSE IF cfg.hide_succeeded /\ cfg.hide_failed /\ cfg.hide_errored THEN None
         ELSE Some(FormatSuite(ev.report))

\* mutant of HumanReporter_on: the two warnings are swapped
HumanReporter_on_WarningsSwapped(cfg, ev) ==
    IF ev.event = "TestFileNotFound"
    THEN Some(<<"Warning: '", ev.path, "' is not a test file, skipping.\n">>)
    ELSE IF ev.event = "TestFileInvalid"
    THEN Some(<<"Warning: '", ev.path, "' is not found, skipping.\n">>)
    ELSE IF ev.event = "TestFileCompleted"
    THEN IF should_hide_test_report(cfg, ev.report) THEN None
         ELSE Some(format_report(ev.report))
    ELSE Some(FormatSuite(ev.report))

\* reports.rs 256-303: HumanReporter::on
HumanReporter_on(cfg, ev) ==
    IF ev.event = "TestFileNotFound"
    THEN Some(<<"Warning: '", ev.path, "' is not found, skipping.\n">>)
    ELSE IF ev.event = "TestFileInvalid"
    THEN Some(<<"Warning: '", ev.path, "' is not a test file, skipping.\n">>)
    ELSE IF ev.event = "TestFileCompleted"
    THEN IF should_hide_test_report(cfg, ev.report) THEN None
         ELSE Some(format_report(ev.report))
    ELSE Some(FormatSuite(ev.report))

\* reports.rs 311-323: ConfigurableReporter picks the reporter by format
ConfigurableReporter_on(cfg, ev) ==
    IF cfg.format = "Human" THEN HumanReporter_on(cfg, ev)
    ELSE JsonReporter_on(cfg, ev)

\* ------------------------------- main.rs, config.rs: the configuration
\* runners.rs 17-25: the runner's config
RunnerConfig(n, t) == [num_threads |-> n, timeout |-> t]

\* config.rs 12-20: the runner's config and the report's config
MainConfig(runner, report) == [runner |-> runner, report |-> report]

\* runners.rs 17 and 41-45: the default runner runs num_cpus::get() threads
\* with no timeout
DefaultRunnerConfig(cpus) == RunnerConfig(cpus, 0)

\* config.rs 12: the derived Default
DefaultMainConfig(cpus) == MainConfig(DefaultRunnerConfig(cpus), DefaultConfig)

\* The content of a .nix-tests.toml is a text that does not parse, or a
\* table in which the key runner.num-threads is absent or a number and no
\* other key is set.
Toml(nt) == [parses |-> TRUE, num_threads |-> nt]

BadToml == [parses |-> FALSE, num_threads |-> None]

\* a directory: its .nix-tests.toml if it has one, and which of flake.lock
\* and .git it holds
Dir(toml, markers) == [toml |-> toml, markers |-> markers]

UnwrapOr(opt, default) == IF opt = None THEN default ELSE opt[1]

\* a Result<Option<Config>>, with the directory whose .nix-tests.toml was
\* read to give it (0 if none was)
Ok(cfg, k) == [ok |-> TRUE, config |-> cfg, read |-> k]

Err(k) == [ok |-> FALSE, config |-> None, read |-> k]

\* config.rs 22-39: the file is read and parsed; num-threads is a usize for
\* which every number is taken, and an absent key gets its default
TryFrom(content, cpus, k) ==
    IF content.parses
    THEN Ok(Some(MainConfig(RunnerConfig(UnwrapOr(content.num_threads, cpus), 0),
                            DefaultConfig)), k)
    ELSE Err(k)

\* mutant of IsBoundary: no directory ends the search
IsBoundary_Never(d) == FALSE

\* config.rs 55: the directory holds flake.lock or .git
IsBoundary(d) == "flake.lock" \in d.markers \/ ".git" \in d.markers

\* mutant of Parent: the search goes from the first directory to the root
Parent_Root(ds, k) == IF k < Len(ds) THEN Some(Len(ds)) ELSE None

\* config.rs 59: dir.parent(), None at the root; ds[1] is the directory the
\* search starts in and ds[Len(ds)] the root
Parent(ds, k) == IF k < Len(ds) THEN Some(k + 1) ELSE None

RECURSIVE search_in(_, _, _)
\* config.rs 47-64
search_in(ds, k, cpus) ==
    IF ds[k].toml # None THEN TryFrom(ds[k].toml[1], cpus, k)
    ELSE IF IsBoundary(ds[k]) THEN Ok(None, 0)
    ELSE IF Parent(ds, k) # None THEN search_in(ds, Parent(ds, k)[1], cpus)
    ELSE Ok(None, 0)

\* main.rs 84-90 and 37-82: the options that set a field of the config
ConfigArgs(nt, t, f, hs, hf, he) ==
    [num_threads |-> nt, timeout |-> t, format |-> f, hide_succeeded |-> hs,
     hide_failed |-> hf, hide_errored |-> he]

\* main.rs 129-141, without the paths and the --config directory
Args(show, config_args) == [show |-> show, config_args |-> config_args]

NoArgs == Args(FALSE, ConfigArgs(None, None, None, None, None, None))

\* main.rs 41: the range of --num-threads
MinNumThreads == 1

MaxNumThreads == 1024

\* main.rs 38-43 and 145: clap takes the command line
ArgsParse(args) ==
    \/ args.config_args.num_threads = None
    \/ /\ args.config_args.num_threads[1] >= MinNumThreads
       /\ args.config_args.num_threads[1] <= MaxNumThreads

\* mutant of FormatInto: the two formats are swapped
FormatInto_Swapped(f) == IF f = "json" THEN "Human" ELSE "Json"

\* main.rs 26-33: the format of the command line as a report format
FormatInto(f) == IF f = "json" THEN "Json" ELSE "Human"

MapFormat(opt) == IF opt = None THEN None ELSE Some(FormatInto(opt[1]))

\* main.rs 92-119: ConfigArgs::apply_to
apply_to(args, base) ==
    MainConfig(
        RunnerConfig(UnwrapOr(args.num_threads, base.runner.num_threads),
                     UnwrapOr(args.timeout, base.runner.timeout)),
        Config(UnwrapOr(MapFormat(args.format), base.report.format),
               UnwrapOr(args.hide_succeeded, base.report.hide_succeeded),
               UnwrapOr(args.hide_failed, base.report.hide_failed),
               UnwrapOr(args.hide_errored, base.report.hide_errored)))

\* ---------------------------------------------------------- the state
VARIABLES
    test_files,     \* the list given to run
    num_threads,    \* config.num_threads
    timeout,        \* the evaluator's timeout in ticks, 0 for none
    pos,            \* entries of test_files the iterator has yielded
    is_done,        \* the fused stream under buffer_unordered has ended
    in_progress,    \* indices of the entries whose future is in the queue
    evals,          \* per entry: the evaluation and its process
    calls,          \* the paths TestFileRunner::run was called with, in order
    returned,       \* the reports the evaluator returned, in order
    events,         \* the events given to report(), in order
    file_reports,   \* the Vec that collect() builds
    run_elapsed,    \* ticks since run started
    pc,             \* "running", then "done" when run has returned
    suite_report,   \* the value run returns
    exit_code,      \* None while main runs, then Some(code of the process)
    config,         \* the reporter's report config
    report_event,   \* the event given to Reporter::on
    message,        \* what Reporter::on returned for it
    reported,       \* the calls of report() that have returned, in order
    fs,             \* the file system search_test_files looks at
    paths,          \* the paths given to search_test_files
    cli,            \* the options of the command line
    dirs,           \* the directories from the start of the search to the root
    num_cpus,       \* what num_cpus::get() returns
    search_result,  \* what Config::search_in returned
    file_config,    \* load_config's file_config, the base of the merge
    loaded          \* what load_config returned

vars ==
    <<test_files, num_threads, timeout, pos, is_done, in_progress, evals,
      calls, returned, events, file_reports, run_elapsed, pc, suite_report,
      exit_code, config, report_event, message, reported, fs, paths, cli, dirs,
      num_cpus,
      search_result, file_config, loaded>>

\* the state of the reporter and of the search, which run leaves alone
reporter_state == <<config, report_event, message, reported>>

search_state == <<fs, paths>>

\* the state of main before the run, which run leaves alone
load_state == <<cli, dirs, num_cpus, search_result, file_config, loaded>>

inputs == <<test_files, num_threads, timeout>>

\* an evaluation: st is "none" (no future), "created" (in the queue, never
\* polled), "waiting" (polled, process running or exited) or "returned";
\* proc is "none", "running", "exited", "spawn_failed" or "killed";
\* at_deadline is history kept while the future lives: proc as it was when
\* elapsed reached the timeout
NewEval ==
    [st |-> "none", proc |-> "none", out |-> NoOutput, elapsed |-> 0,
     at_deadline |-> "none"]

Files == 1..Len(test_files)

\* the reporter before it is given an event
ReporterIdle ==
    /\ config = DefaultConfig
    /\ report_event = None
    /\ message = None
    /\ reported = <<>>

\* nothing to search
SearchIdle ==
    /\ fs = <<>>
    /\ paths = <<>>

\* no command line and no configuration is looked at
LoadIdle ==
    /\ cli = None
    /\ dirs = <<>>
    /\ num_cpus = 1
    /\ search_result = None
    /\ file_config = None
    /\ loaded = None

NoReport == TestSuiteReport(<<>>, 0)

Timeouts == {0, 1}

Init ==
    /\ test_files \in TestFileLists
    /\ num_threads \in 0..MaxThreads
    /\ timeout \in Timeouts
    /\ pos = 0
    /\ is_done = FALSE
    /\ in_progress = {}
    /\ evals = [i \in Files |-> NewEval]
    /\ calls = <<>>
    /\ returned = <<>>
    /\ events = <<>>
    /\ file_reports = <<>>
    /\ run_elapsed = 0
    /\ pc = "running"
    /\ suite_report = NoReport
    /\ exit_code = None
    /\ ReporterIdle
    /\ SearchIdle
    /\ LoadIdle

\* ------------------------------------ runners.rs: TestSuiteRunner::run
\* mutants of HasFreeSlot: the bound is off by one, either way
HasFreeSlot_OneTooMany == Cardinality(in_progress) <= num_threads

HasFreeSlot_OneTooFew == Cardinality(in_progress) < num_threads - 1

\* runners.rs 191: buffer_unordered pulls from the stream while its queue
\* holds fewer than num_threads futures
HasFreeSlot == Cardinality(in_progress) < num_threads

\* buffer_unordered polls its queue once it has stopped pulling
Filled == ~HasFreeSlot \/ is_done

\* mutant of IsDispatched: only Invalid entries are dropped
IsDispatched_NotFoundToo(tf) == tf.kind # "Invalid"

\* mutant of SkipEvent: the two events are swapped
SkipEvent_Swapped(tf) ==
    IF tf.kind = "NotFound" THEN TestFileInvalid(tf.path)
    ELSE TestFileNotFound(tf.path)

\* runners.rs 174-186: the filter_map closure
IsDispatched(tf) == tf.kind = "Valid"

SkipEvent(tf) ==
    IF tf.kind = "NotFound" THEN TestFileNotFound(tf.path)
    ELSE TestFileInvalid(tf.path)

\* mutant of NextValid: the last Valid entry after pos is taken
NextValid_Last ==
    LET later == {i \in Files : i > pos /\ IsDispatched(test_files[i])}
    IN IF later = {} THEN 0 ELSE CHOOSE i \in later : \A j \in later : j <= i

\* the first entry after pos that filter_map lets through, 0 if none
NextValid ==
    LET later == {i \in Files : i > pos /\ IsDispatched(test_files[i])}
    IN IF later = {} THEN 0 ELSE Min(later)

\* mutant of SkipEvents: the dropped entries are not reported
SkipEvents_None(lo, hi) == <<>>

RECURSIVE SkipEvents(_, _)
\* the events of the entries lo..hi, which filter_map drops
SkipEvents(lo, hi) ==
    IF lo > hi THEN <<>>
    ELSE <<SkipEvent(test_files[lo])>> \o SkipEvents(lo + 1, hi)

\* runners.rs 173-191: one poll_next of the filter_map/map stream: the
\* entries up to the next Valid one are reported and dropped, the Valid one
\* becomes a future in the queue; at the end of the list the stream ends
PullNext ==
    /\ pc = "running"
    /\ ~is_done
    /\ HasFreeSlot
    /\ LET nv == NextValid
           hi == IF nv = 0 THEN Len(test_files) ELSE nv - 1
       IN /\ events' = events \o SkipEvents(pos + 1, hi)
          /\ IF nv = 0
             THEN /\ pos' = Len(test_files)
                  /\ is_done' = TRUE
                  /\ UNCHANGED <<in_progress, evals>>
             ELSE /\ pos' = nv
                  /\ is_done' = FALSE
                  /\ in_progress' = in_progress \cup {nv}
                  /\ evals' = [evals EXCEPT ![nv].st = "created"]
    /\ UNCHANGED <<inputs, calls, returned, file_reports, run_elapsed, pc, suite_report,
                   exit_code, reporter_state, search_state, load_state>>

\* runners.rs 192-196: a future of the queue is ready: inspect reports
\* TestFileCompleted and collect pushes the report
Yield(i, e) ==
    LET report == ReportOf(test_files[i].path, e, timeout)
    IN /\ evals' = [evals EXCEPT ![i] = [e EXCEPT !.st = "returned",
                                                  !.proc = KillOnDrop(e.proc),
                                                  !.at_deadline = "none"]]
       /\ in_progress' = in_progress \ {i}
       /\ returned' = Append(returned, report)
       /\ events' = Append(events, TestFileCompleted(report))
       /\ file_reports' = Append(file_reports, report)

\* runners.rs 88-108 and 189: the first poll of a future calls
\* TestFileRunner::run: the clock starts and the process is spawned; a
\* failed spawn makes the output future ready at once
FirstPoll(i) ==
    /\ pc = "running"
    /\ Filled
    /\ i \in in_progress
    /\ evals[i].st = "created"
    \* the queue polls the futures it was given in the order they were pushed
    /\ \A j \in in_progress : evals[j].st = "created" => i <= j
    /\ calls' = Append(calls, test_files[i].path)
    /\ \/ /\ evals' = [evals EXCEPT ![i].st = "waiting", ![i].proc = "running"]
          /\ UNCHANGED <<in_progress, returned, events, file_reports>>
       \/ Yield(i, [evals[i] EXCEPT !.proc = "spawn_failed"])
    /\ UNCHANGED <<inputs, pos, is_done, run_elapsed, pc, suite_report, exit_code,
                   reporter_state, search_state, load_state>>

\* mutant of Complete: a report is taken only when every future of the
\* queue is ready
Complete_WaitsForAll(i) ==
    /\ pc = "running"
    /\ Filled
    /\ i \in in_progress
    /\ evals[i].st = "waiting"
    /\ \A j \in in_progress :
          evals[j].st = "waiting" /\ PollOutput(evals[j], timeout) # "pending"
    /\ Yield(i, evals[i])
    /\ UNCHANGED <<inputs, pos, is_done, calls, run_elapsed, pc, suite_report,
                   exit_code, reporter_state, search_state, load_state>>

\* runners.rs 110-148: a later poll of a future whose output is ready or
\* whose deadline has passed
Complete(i) ==
    /\ pc = "running"
    /\ Filled
    /\ i \in in_progress
    /\ evals[i].st = "waiting"
    /\ PollOutput(evals[i], timeout) # "pending"
    /\ Yield(i, evals[i])
    /\ UNCHANGED <<inputs, pos, is_done, calls, run_elapsed, pc, suite_report,
                   exit_code, reporter_state, search_state, load_state>>

\* mutants of StreamDrained: the queue is not waited for; the stream stops
\* at the first report that is not completed
StreamDrained_QueueIgnored == is_done

StreamDrained_FailFast ==
    \/ is_done /\ in_progress = {}
    \/ file_reports # <<>> /\ Last(file_reports).status # "completed"

\* buffer_unordered ends when the stream has ended and the queue is empty
StreamDrained == is_done /\ in_progress = {}

\* runners.rs 198-203: the summary is built, reported and returned
Finish ==
    /\ pc = "running"
    /\ StreamDrained
    /\ LET report == TestSuiteReport(file_reports, run_elapsed)
       IN /\ events' = Append(events, TestSuiteCompleted(report))
          /\ suite_report' = report
    /\ pc' = "done"
    /\ UNCHANGED <<inputs, pos, is_done, in_progress, evals, calls, returned,
                   file_reports, run_elapsed, exit_code, reporter_state,
                   search_state, load_state>>

\* main.rs 162-173: run has returned its report: the process exits
Exit ==
    /\ pc = "done"
    /\ exit_code = None
    /\ exit_code' = Some(ExitCode(suite_report))
    /\ UNCHANGED <<inputs, pos, is_done, in_progress, evals, calls, returned,
                   events, file_reports, run_elapsed, pc, suite_report,
                   reporter_state, search_state, load_state>>

\* ------------------------------------------------------ environment
\* a running nix-instantiate exits with some status, stdout and stderr
ProcExit(i) ==
    /\ pc = "running"
    /\ i \in in_progress
    /\ evals[i].proc = "running"
    /\ \E o \in ProcOutputs :
          evals' = [evals EXCEPT ![i].proc = "exited", ![i].out = o]
    /\ UNCHANGED <<inputs, pos, is_done, in_progress, calls, returned, events,
                   file_reports, run_elapsed, pc, suite_report, exit_code,
                   reporter_state, search_state, load_state>>

Ticking(i) == i \in in_progress /\ evals[i].st = "waiting"

\* a tick of the clock: every running measurement advances
Tick ==
    /\ pc = "running"
    /\ \E i \in Files : Ticking(i) /\ evals[i].elapsed < MaxElapsed
    /\ run_elapsed' = Inc(run_elapsed)
    /\ evals' = [i \in Files |->
                    IF Ticking(i)
                    THEN [evals[i] EXCEPT
                            !.elapsed = Inc(@),
                            !.at_deadline =
                                IF evals[i].elapsed < timeout /\ Inc(evals[i].elapsed) >= timeout
                                THEN evals[i].proc ELSE @]
                    ELSE evals[i]]
    /\ UNCHANGED <<inputs, pos, is_done, in_progress, calls, returned, events,
                   file_reports, pc, suite_report, exit_code, reporter_state,
                   search_state, load_state>>

RunStep == PullNext \/ (\E i \in Files : FirstPoll(i) \/ Complete(i)) \/ Finish

Next == RunStep \/ (\E i \in Files : ProcExit(i)) \/ Tick \/ Exit

Spec == Init /\ [][Next]_vars

\* Fairness.  The task that runs the stream is polled whenever one of its
\* steps is possible, and the clock advances.  A process is only assumed to
\* exit where there is no deadline (timeout = 0).
LiveSpec ==
    /\ Spec
    /\ WF_vars(RunStep)
    /\ WF_vars(Tick)
    /\ WF_vars(timeout = 0 /\ \E i \in Files : ProcExit(i))

\* ------------------------------------------- the reporter on one event
\* a failed check that carries no failure text
FailCheckNoMessage == CheckReport("c3", FALSE, None, "f:6")

FailTestNoMessage == TestReport(FALSE, <<"t3">>, "f:5", <<FailCheckNoMessage>>)

TestLists == {<<>>, <<PassTest>>, <<FailTest, PassTest>>, <<FailTestNoMessage>>}

\* the reports an event or a summary can carry
FileReports ==
    {Completed("a.nix", ts, el) : ts \in TestLists, el \in 0..MaxElapsed}
        \cup {Errored("b.nix", Str("", <<119>>), 0), TimedOut("c.nix", 1, 1)}

SuiteReports ==
    UNION {{TestSuiteReport(rs, MaxElapsed) : rs \in [1..k -> FileReports]} :
              k \in 0..MaxFiles}

ReportEvents ==
    {TestFileNotFound("m.nix"), TestFileInvalid("f.nix")}
        \cup {TestFileCompleted(r) : r \in FileReports}
        \cup {TestSuiteCompleted(sr) : sr \in SuiteReports}

\* the run variables of a state in which no run takes place
RunIdle ==
    /\ test_files = <<>>
    /\ num_threads = 1
    /\ timeout = 0
    /\ pos = 0
    /\ is_done = FALSE
    /\ in_progress = {}
    /\ evals = <<>>
    /\ calls = <<>>
    /\ returned = <<>>
    /\ events = <<>>
    /\ file_reports = <<>>
    /\ run_elapsed = 0
    /\ suite_report = NoReport
    /\ exit_code = None

run_state ==
    <<test_files, num_threads, timeout, pos, is_done, in_progress, evals, calls,
      returned, events, file_reports, run_elapsed, suite_report, exit_code>>

\* a reporter built from any config is given any event
ReportInit ==
    /\ RunIdle
    /\ SearchIdle
    /\ LoadIdle
    /\ pc = "render"
    /\ config \in Configs
    /\ report_event \in ReportEvents
    /\ message = None
    /\ reported = <<>>

\* reports.rs 320-323: ConfigurableReporter::on
On ==
    /\ pc = "render"
    /\ message' = ConfigurableReporter_on(config, report_event)
    /\ pc' = "rendered"
    /\ UNCHANGED <<run_state, config, report_event, reported, search_state,
                   load_state>>

ReportNext == On

ReportSpec == ReportInit /\ [][ReportNext]_vars

\* ------------------------------------------------ the search for files
\* the regular files there can be, and the paths that can be asked for
FileNames == {ATestNix, FlakeNix, DXTestNix, DYTestNix, DZNix}

PathNames == {ATestNix, FlakeNix, MissingNix, DirD, DXTestNix}

\* a file's directory exists
FileSystems ==
    {FileSystem(fl, ds) : fl \in SUBSET FileNames, ds \in SUBSET {DirD}}
        \ {FileSystem(fl, {}) : fl \in {x \in SUBSET FileNames :
                                           \E file \in x : StartsWith(file, DirD \o Slash)}}

PathLists == UNION {[1..k -> PathNames] : k \in 0..MaxPaths}

\* what find_files_in_dir can yield for each path of the list: the files it
\* finds, in any order
Listings(f, files) ==
    {l \in [1..Len(files) ->
               UNION {Enumerations(FoundInDir(f, files[n])) : n \in 1..Len(files)}] :
        \A n \in 1..Len(files) : l[n] \in Enumerations(FoundInDir(f, files[n]))}

SearchInit ==
    /\ RunIdle
    /\ ReporterIdle
    /\ LoadIdle
    /\ pc = "search"
    /\ fs \in FileSystems
    /\ paths \in PathLists

\* main.rs 154 and files.rs 53-82: the search returns the classified files
SearchOk ==
    /\ pc = "search"
    /\ \E found \in Listings(fs, paths) :
          test_files' = search_test_files(fs, paths, found)
    /\ pc' = "searched"
    /\ UNCHANGED <<num_threads, timeout, pos, is_done, in_progress, evals, calls,
                   returned, events, file_reports, run_elapsed, suite_report,
                   exit_code, reporter_state, search_state, load_state>>

\* mutant of SearchErr: the files classified before the failure are kept
SearchErr_KeepsPartial ==
    /\ pc = "search"
    /\ \E n \in 1..Len(paths) :
          /\ Exists(fs, paths[n]) /\ ~IsFile(fs, paths[n])
          /\ \E l \in Listings(fs, SubSeq(paths, 1, n - 1)) :
                test_files' = search_test_files(fs, SubSeq(paths, 1, n - 1), l)
    /\ pc' = "search_failed"
    /\ exit_code' = Some(1)
    /\ UNCHANGED <<num_threads, timeout, pos, is_done, in_progress, evals, calls,
                   returned, events, file_reports, run_elapsed, suite_report,
                   reporter_state, search_state, load_state>>

\* files.rs 73 and main.rs 154: find_files_in_dir fails (the command cannot
\* be run): the error goes up to main, which exits with 1
SearchErr ==
    /\ pc = "search"
    /\ \E n \in 1..Len(paths) : Exists(fs, paths[n]) /\ ~IsFile(fs, paths[n])
    /\ pc' = "search_failed"
    /\ exit_code' = Some(1)
    /\ UNCHANGED <<inputs, pos, is_done, in_progress, evals, calls, returned,
                   events, file_reports, run_elapsed, suite_report,
                   reporter_state, search_state, load_state>>

SearchNext == SearchOk \/ SearchErr

SearchSpec == SearchInit /\ [][SearchNext]_vars

\* ------------------------------------------------------- the scenario
\* a_test.nix and b_test.nix exist, missing.nix does not
ScenarioFs == FileSystem({ATestNix, BTestNix}, {})

ScenarioPaths == <<ATestNix, BTestNix, MissingNix>>

\* main.rs 154-160: the paths are classified and the runner is built with
\* two threads and no timeout
ScenarioInit ==
    /\ fs = ScenarioFs
    /\ paths = ScenarioPaths
    /\ test_files = search_test_files(ScenarioFs, ScenarioPaths, <<<<>>, <<>>, <<>>>>)
    /\ num_threads = 2
    /\ timeout = 0
    /\ pos = 0
    /\ is_done = FALSE
    /\ in_progress = {}
    /\ evals = [i \in Files |-> NewEval]
    /\ calls = <<>>
    /\ returned = <<>>
    /\ events = <<>>
    /\ file_reports = <<>>
    /\ run_elapsed = 0
    /\ pc = "running"
    /\ suite_report = NoReport
    /\ exit_code = None
    /\ ReporterIdle
    /\ LoadIdle

ScenarioSpec == ScenarioInit /\ [][Next]_vars

\* ------------------------------------------ main before the run starts
\* the files .nix-tests.toml there can be
TomlFiles == {BadToml, Toml(None), Toml(Some(0))}

Dirs ==
    {Dir(toml, markers) : toml \in {None} \cup {Some(c) : c \in TomlFiles},
                          markers \in {{}, {"flake.lock"}, {".git"}}}

DirChains == UNION {[1..k -> Dirs] : k \in 1..MaxDepth}

\* the command lines: --show or not, --num-threads absent or some number
LoadArgs ==
    {Args(show, ConfigArgs(nt, None, None, None, None, None)) :
        show \in BOOLEAN, nt \in {None, Some(0), Some(MaxThreads)}}

LoadInit ==
    /\ RunIdle
    /\ ReporterIdle
    /\ SearchIdle
    /\ pc = "start"
    /\ cli \in LoadArgs
    /\ dirs \in DirChains
    /\ num_cpus \in 1..MaxThreads
    /\ search_result = None
    /\ file_config = None
    /\ loaded = None

\* main.rs 145: Args::parse() ends the process with code 2 when an option
\* is not in its range
ParseArgs ==
    /\ pc = "start"
    /\ IF ArgsParse(cli)
       THEN pc' = "parsed" /\ exit_code' = exit_code
       ELSE pc' = "usage_error" /\ exit_code' = Some(2)
    /\ UNCHANGED <<inputs, pos, is_done, in_progress, evals, calls, returned,
                   events, file_reports, run_elapsed, suite_report,
                   reporter_state, search_state, load_state>>

\* main.rs 147 and 176-192: load_config searches the file from dirs[1]
\* (the --config directory or the current one), takes the default when
\* there is none, and merges the command line into it; an error of the
\* search ends main with code 1
LoadConfig ==
    /\ pc = "parsed"
    /\ LET r == search_in(dirs, 1, num_cpus)
           base == UnwrapOr(r.config, DefaultMainConfig(num_cpus))
       IN /\ search_result' = Some(r)
          /\ IF r.ok
             THEN /\ file_config' = Some(base)
                  /\ loaded' = Some(apply_to(cli.config_args, base))
                  /\ pc' = "loaded"
                  /\ exit_code' = exit_code
             ELSE /\ UNCHANGED <<file_config, loaded>>
                  /\ pc' = "load_failed"
                  /\ exit_code' = Some(1)
    /\ UNCHANGED <<inputs, pos, is_done, in_progress, evals, calls, returned,
                   events, file_reports, run_elapsed, suite_report,
                   reporter_state, search_state, cli, dirs, num_cpus>>

\* main.rs 149-152: --show prints the config and returns
Show ==
    /\ pc = "loaded"
    /\ cli.show
    /\ pc' = "shown"
    /\ exit_code' = Some(0)
    /\ UNCHANGED <<inputs, pos, is_done, in_progress, evals, calls, returned,
                   events, file_reports, run_elapsed, suite_report,
                   reporter_state, search_state, load_state>>

\* main.rs 156-162: the evaluator is built with the timeout of the loaded
\* config, the reporter with its report config and the runner with its
\* runner config, and run is called; the list of files is the subject of
\* SearchSpec and is left empty here
Start ==
    /\ pc = "loaded"
    /\ ~cli.show
    /\ num_threads' = loaded[1].runner.num_threads
    /\ timeout' = loaded[1].runner.timeout
    /\ config' = loaded[1].report
    /\ pc' = "running"
    /\ UNCHANGED <<test_files, pos, is_done, in_progress, evals, calls, returned,
                   events, file_reports, run_elapsed, suite_report, exit_code,
                   report_event, message, reported, search_state, load_state>>

LoadNext == ParseArgs \/ LoadConfig \/ Show \/ Start

LoadSpec == LoadInit /\ [][LoadNext]_vars

\* ------------------------------------------------- the merge on its own
Option(S) == {None} \cup {Some(x) : x \in S}

\* every combination of options that clap lets through
ApplyArgs ==
    {Args(FALSE, ConfigArgs(nt, t, f, hs, hf, he)) :
        nt \in Option(1..MaxThreads), t \in Option(Timeouts),
        f \in Option({"json", "human"}), hs \in Option(BOOLEAN),
        hf \in Option(BOOLEAN), he \in Option(BOOLEAN)}

BaseConfigs ==
    {MainConfig(r, c) : r \in {RunnerConfig(MaxThreads, 0), RunnerConfig(1, 1)},
                        c \in Configs}

ApplyInit ==
    /\ RunIdle
    /\ ReporterIdle
    /\ SearchIdle
    /\ pc = "merge"
    /\ cli \in ApplyArgs
    /\ dirs = <<>>
    /\ num_cpus = 1
    /\ search_result = None
    /\ file_config \in {Some(b) : b \in BaseConfigs}
    /\ loaded = None

\* main.rs 189: args.config_args.apply_to(file_config)
Apply ==
    /\ pc = "merge"
    /\ loaded' = Some(apply_to(cli.config_args, file_config[1]))
    /\ pc' = "merged"
    /\ UNCHANGED <<run_state, reporter_state, search_state, cli, dirs, num_cpus,
                   search_result, file_config>>

ApplyNext == Apply

ApplySpec == ApplyInit /\ [][ApplyNext]_vars

\* --------------------------------------- main from the search to the exit
\* a_test.nix and d/x_test.nix exist
MainFs == FileSystem({ATestNix, DXTestNix}, {DirD})

\* the paths of the command line: a test file, a directory, a missing file
MainPathLists == UNION {[1..k -> {ATestNix, DirD, MissingNix}] : k \in 0..MaxPaths}

MainInit ==
    /\ fs = MainFs
    /\ paths \in MainPathLists
    /\ test_files = <<>>
    /\ num_threads \in 0..MaxThreads
    /\ timeout \in Timeouts
    /\ pos = 0
    /\ is_done = FALSE
    /\ in_progress = {}
    /\ evals = <<>>
    /\ calls = <<>>
    /\ returned = <<>>
    /\ events = <<>>
    /\ file_reports = <<>>
    /\ run_elapsed = 0
    /\ pc = "search"
    /\ suite_report = NoReport
    /\ exit_code = None
    /\ ReporterIdle
    /\ LoadIdle

\* main.rs 156-164: the runner is built and select! polls run
RunStart ==
    /\ pc = "searched"
    /\ evals' = [i \in Files |-> NewEval]
    /\ pc' = "running"
    /\ UNCHANGED <<inputs, pos, is_done, in_progress, calls, returned, events,
                   file_reports, run_elapsed, suite_report, exit_code,
                   reporter_state, search_state, load_state>>

\* main.rs 215-225: the code of SIGINT, SIGTERM and SIGHUP
SignalCodes == {130, 143, 129}

\* main.rs 162-171: a signal arrives while run is pending: select! takes
\* the branch of shutdown_signal; it drops the future of run, and with it
\* the output futures of the evaluations in flight (runners.rs 106:
\* kill_on_drop), before the branch's handler exits with the signal's code
Signal ==
    /\ pc = "running"
    /\ \E code \in SignalCodes : exit_code' = Some(code)
    /\ evals' = [i \in Files |-> [evals[i] EXCEPT !.proc = KillOnDrop(@)]]
    /\ pc' = "signalled"
    /\ UNCHANGED <<inputs, pos, is_done, in_progress, calls, returned,
                   events, file_reports, run_elapsed, suite_report,
                   reporter_state, search_state, load_state>>

MainNext == SearchOk \/ SearchErr \/ RunStart \/ Next \/ Signal

MainSpec == MainInit /\ [][MainNext]_vars

\* ------------------------------------------------- the emission channel
\* runners.rs 206-211: report() is a synchronous call made by run's own
\* task: the reporter renders the event, the message (if any) is printed,
\* and only then does run go on. Here report_event holds the calls of
\* report() in progress, message what the reporter returned for each, and
\* reported the calls that have returned.

\* runners.rs 208: print! writes to the standard output
PrintStream == "stdout"

\* the events run has emitted whose call of report() has not started
Undelivered == Len(reported) + Len(report_event) < Len(events)

\* every emitted event has been rendered and printed
Delivered == report_event = <<>> /\ ~Undelivered

CanReport_Concurrent == TRUE

\* runners.rs 178-201: each self.report(..) is a statement of run's single
\* task: the next call starts when the one before has returned
CanReport == report_event = <<>>

\* a.nix is missing, b.nix is not a test file, c.nix and d.nix are
EmitFiles == <<NotFound(Path(1)), Invalid(Path(2)), Valid(Path(3)), Valid(Path(4))>>

EmitInit ==
    /\ test_files = EmitFiles
    /\ num_threads \in 1..MaxThreads
    /\ timeout \in Timeouts
    /\ pos = 0
    /\ is_done = FALSE
    /\ in_progress = {}
    /\ evals = [i \in Files |-> NewEval]
    /\ calls = <<>>
    /\ returned = <<>>
    /\ events = <<>>
    /\ file_reports = <<>>
    /\ run_elapsed = 0
    /\ pc = "running"
    /\ suite_report = NoReport
    /\ exit_code = None
    /\ config \in {DefaultConfig, Config("Json", FALSE, FALSE, FALSE)}
    /\ report_event = <<>>
    /\ message = <<>>
    /\ reported = <<>>
    /\ SearchIdle
    /\ LoadIdle

\* runners.rs 207: self.reporter.on(event) renders the next event
ReportOn ==
    /\ CanReport
    /\ Undelivered
    /\ LET event == events[Len(reported) + Len(report_event) + 1]
       IN /\ report_event' = Append(report_event, event)
          /\ message' = Append(message, ConfigurableReporter_on(config, event))
    /\ UNCHANGED <<run_state, pc, config, reported, search_state, load_state>>

\* runners.rs 207-210: the message, if there is one, is printed and the
\* call returns
ReportPrint ==
    /\ \E k \in 1..Len(report_event) :
          /\ reported' = Append(reported,
                [event |-> report_event[k],
                 message |-> message[k],
                 stream |-> IF message[k] = None THEN "none" ELSE PrintStream])
          /\ report_event' = [j \in 1..(Len(report_event) - 1) |->
                                 report_event[IF j < k THEN j ELSE j + 1]]
          /\ message' = [j \in 1..(Len(message) - 1) |->
                            message[IF j < k THEN j ELSE j + 1]]
    /\ UNCHANGED <<run_state, pc, config, search_state, load_state>>

\* run goes on, and main exits, only after the call of report() returned
EmitNext ==
    \/ Delivered /\ RunStep
    \/ \E i \in Files : ProcExit(i)
    \/ Tick
    \/ Delivered /\ Exit
    \/ ReportOn
    \/ ReportPrint

EmitSpec == EmitInit /\ [][EmitNext]_vars

\* ------------------------------------------------- notions of the claims
ValidFiles == {i \in Files : test_files[i].kind = "Valid"}

SkippedFiles == Files \ ValidFiles

\* dispatched and not yet at a terminal state
InFlight == {i \in Files : evals[i].st \in {"created", "waiting"}}

EventsOf(kinds) == {k \in 1..Len(events) : events[k].event \in kinds}

\* the positions of the reports the evaluator returned for entry i
ReportsOf(i) == {k \in 1..Len(returned) : returned[k].file = test_files[i].path}

CompletedEventsFor(i) ==
    {k \in EventsOf({"TestFileCompleted"}) : events[k].report.file = test_files[i].path}

CallsFor(i) == {k \in 1..Len(calls) : calls[k] = test_files[i].path}

Terminal == {"completed", "errored", "timed_out"}

RECURSIVE Utf8Bytes(_)
\* the UTF-8 encoding of a String's code points (String::as_bytes)
Utf8Bytes(cps) ==
    IF cps = <<>> THEN <<>>
    ELSE (IF Head(cps) < 128 THEN <<Head(cps)>> ELSE <<239, 191, 189>>)
             \o Utf8Bytes(Tail(cps))

\* --------------------------------------------------------------- claims

\* C1: at every moment of run the number of evaluations dispatched and not
\* yet terminal is at most num_threads, for every num_threads >= 1 and every
\* list, also one with more Valid files than num_threads.
C1_InFlightAtMostNumThreads ==
    num_threads >= 1 => Cardinality(InFlight) <= num_threads

C1_Witness ==
    /\ num_threads >= 1
    /\ Cardinality(ValidFiles) > num_threads
    /\ Cardinality(InFlight) = num_threads
    /\ \E i \in ValidFiles : evals[i].st = "none"
    /\ \E i \in ValidFiles : evals[i].st = "waiting"

\* C2: TestSuiteCompleted is emitted exactly once and is the last event:
\* it is there iff run has returned, nothing follows it, and when it is
\* emitted no dispatched evaluation is short of a terminal state.
C2_SuiteCompletedOnceAndLast ==
    LET suite == EventsOf({"TestSuiteCompleted"})
    IN /\ Cardinality(suite) = (IF pc = "done" THEN 1 ELSE 0)
       /\ \A k \in suite :
             /\ k = Len(events)
             /\ InFlight = {}
             /\ \A i \in Files : i <= pos /\ i \in ValidFiles => evals[i].st = "returned"

C2_Witness ==
    /\ pc = "done"
    /\ Len(events) >= 3
    /\ EventsOf({"TestFileCompleted"}) # {}
    /\ EventsOf({"TestFileNotFound", "TestFileInvalid"}) # {}
    /\ Last(events).event = "TestSuiteCompleted"

\* C3: every Valid entry has the evaluator called exactly once with its path
\* and exactly one TestFileCompleted event, which carries the report that
\* evaluation returned; no other path gets a call or a TestFileCompleted
\* event; every report is one of completed, errored and timed out.
C3_OneEvaluationOneEventPerValid ==
    /\ \A i \in Files :
          /\ Cardinality(CallsFor(i)) <= 1
          /\ Cardinality(CompletedEventsFor(i)) <= 1
          /\ Cardinality(ReportsOf(i)) <= 1
          /\ i \in SkippedFiles =>
                CallsFor(i) = {} /\ CompletedEventsFor(i) = {} /\ ReportsOf(i) = {}
          /\ pc = "done" /\ i \in ValidFiles =>
                /\ Cardinality(CallsFor(i)) = 1
                /\ Cardinality(CompletedEventsFor(i)) = 1
                /\ Cardinality(ReportsOf(i)) = 1
          /\ \A k \in CompletedEventsFor(i) :
                \E r \in ReportsOf(i) : events[k].report = returned[r]
    /\ Cardinality(EventsOf({"TestFileCompleted"})) = Len(returned)
    /\ \A k \in EventsOf({"TestFileCompleted"}) :
          /\ events[k].report.status \in Terminal
          /\ \E i \in ValidFiles : events[k].report.file = test_files[i].path

C3_Witness ==
    /\ pc = "done"
    /\ Cardinality(ValidFiles) >= 2
    /\ \E i, j \in ValidFiles :
          \E a \in CompletedEventsFor(i), b \in CompletedEventsFor(j) :
             events[a].report.status # events[b].report.status

\* C4: every NotFound (Invalid) entry gets exactly one TestFileNotFound
\* (TestFileInvalid) event with its path, these events come in the order of
\* the entries in the list, the evaluator is never called for such an entry,
\* and the summary holds no report for it: it holds one report per Valid
\* entry and nothing else.
C4_SkippedReportedOnceInOrder ==
    LET skipped == SelectIdx(LAMBDA i : i \in SkippedFiles, 1, Len(test_files))
        warned == SelectIdx(LAMBDA k : k \in EventsOf({"TestFileNotFound", "TestFileInvalid"}),
                            1, Len(events))
    IN /\ Len(warned) <= Len(skipped)
       /\ \A n \in 1..Len(warned) :
             /\ events[warned[n]].path = test_files[skipped[n]].path
             /\ events[warned[n]].event =
                   (IF test_files[skipped[n]].kind = "NotFound"
                    THEN "TestFileNotFound" ELSE "TestFileInvalid")
             /\ skipped[n] <= pos
       /\ \A n \in 1..Len(skipped) : skipped[n] <= pos => n <= Len(warned)
       /\ pc = "done" => Len(warned) = Len(skipped)
       /\ \A i \in SkippedFiles :
             /\ CallsFor(i) = {}
             /\ evals[i] = NewEval
             /\ \A k \in 1..Len(file_reports) : file_reports[k].file # test_files[i].path
       /\ pc = "done" =>
             /\ Len(suite_report.reports) = Cardinality(ValidFiles)
             /\ \A k \in 1..Len(suite_report.reports) :
                   \E i \in ValidFiles : suite_report.reports[k].file = test_files[i].path

C4_Witness ==
    /\ pc = "done"
    /\ \E i \in ValidFiles, j \in SkippedFiles :
          /\ i < j
          /\ test_files[j].kind = "NotFound"
          /\ events[2] = TestFileNotFound(test_files[j].path)
    /\ has_issues(suite_report)

\* C5: with num_threads >= 1 run emits TestSuiteCompleted and returns, for
\* every list: under LiveSpec every evaluation ends (by its deadline when
\* timeout > 0, by the exit of its process otherwise), and run never stays
\* stuck with Valid files still queued.
C5_RunTerminates == (num_threads >= 1) ~> (pc = "done")

C5_Witness ==
    /\ pc = "done"
    /\ num_threads >= 1
    /\ Cardinality(ValidFiles) > num_threads
    /\ Last(events).event = "TestSuiteCompleted"
    /\ Len(suite_report.reports) = Cardinality(ValidFiles)

\* C6: an errored or timed-out evaluation does not stop the run: when run
\* returns every Valid entry has been evaluated and has its report in the
\* summary and its TestFileCompleted event; and the step in which one
\* evaluation returns (a timeout included) changes no other evaluation and
\* no other process.
C6_FailuresAreIsolated ==
    /\ [](pc = "done" =>
            \A i \in ValidFiles :
               /\ evals[i].st = "returned"
               /\ \E k \in 1..Len(suite_report.reports) :
                     suite_report.reports[k].file = test_files[i].path
               /\ CompletedEventsFor(i) # {})
    /\ [][\A i \in Files :
            evals[i].st # "returned" /\ evals'[i].st = "returned" =>
               \A j \in Files \ {i} : evals'[j] = evals[j]]_vars

C6_Witness ==
    /\ pc = "done"
    /\ \E a, b \in 1..Len(suite_report.reports) :
          /\ a < b
          /\ suite_report.reports[a].status = "timed_out"
          /\ suite_report.reports[b].status = "completed"

\* C7 (amended): with timeout > 0, an evaluation that is polled with its
\* deadline expired and its process still running returns a TimedOut report whose
\* timeout is the configured timeout and whose elapsed is at least the
\* timeout, and the process is killed in that step; so for every TimedOut
\* report that has been returned the process is not running.
C7_TimedOutKillsTheProcess ==
    /\ [](\A i \in Files : \A k \in ReportsOf(i) :
            returned[k].status = "timed_out" =>
               /\ returned[k].timeout = timeout
               /\ returned[k].elapsed >= timeout
               /\ evals[i].proc # "running")
    /\ [][\A i \in Files :
            (/\ timeout > 0
             /\ evals[i].st = "waiting"
             /\ evals[i].proc = "running"
             /\ evals[i].elapsed >= timeout
             /\ evals'[i].st = "returned") =>
               /\ Last(returned') = TimedOut(test_files[i].path, timeout, evals[i].elapsed)
               /\ evals'[i].proc = "killed"]_vars

C7_Witness ==
    /\ timeout > 0
    /\ \E i \in Files : \E k \in ReportsOf(i) :
          /\ returned[k].status = "timed_out"
          /\ returned[k].elapsed >= timeout
          /\ evals[i].proc = "killed"
    /\ \E j \in Files : evals[j].proc = "running"

\* C7 as stated: with timeout > 0 every evaluation whose process was still
\* running when the deadline expired returns TimedOut.
C7_AliveAtDeadlineTimesOut ==
    [][\A i \in Files :
         (/\ timeout > 0
          /\ evals[i].at_deadline = "running"
          /\ evals[i].st = "waiting"
          /\ evals'[i].st = "returned") =>
            Last(returned').status = "timed_out"]_vars

\* C8: a TimedOut report is returned only with timeout > 0 and for a process
\* that had not exited when the evaluation was polled after the deadline:
\* with timeout = 0 no report is TimedOut, and an evaluation whose process
\* has exited never returns TimedOut.
C8_TimedOutOnlyPastTheDeadline ==
    \A i \in Files :
       /\ \A k \in ReportsOf(i) :
             returned[k].status = "timed_out" =>
                /\ timeout > 0
                /\ evals[i].proc = "killed"
                /\ evals[i].out = NoOutput
                /\ evals[i].elapsed >= timeout
       /\ evals[i].st = "returned" /\ evals[i].proc \in {"exited", "spawn_failed"} =>
             \A k \in ReportsOf(i) : returned[k].status # "timed_out"

C8_Witness ==
    /\ timeout > 0
    /\ \E k \in 1..Len(returned) : returned[k].status = "timed_out"
    /\ \E i \in Files : \E k \in ReportsOf(i) :
          /\ evals[i].proc = "exited"
          /\ returned[k].status = "completed"
          /\ returned[k].elapsed < timeout

\* C9 as stated: an evaluation that does not time out is decided in this
\* order: a failed launch is errored with the launch message; a non-zero exit
\* is errored with the bytes of stderr as they are; a zero exit whose stdout
\* is no sequence of tests is errored with the deserialization message; a
\* zero exit with a valid payload is completed with the tests in order.
C9_OutcomeOrderVerbatimStderr ==
    \A i \in Files : \A k \in ReportsOf(i) :
       LET r == returned[k]
           e == evals[i]
           payload_ok ==
               ~\E n \in 1..Len(e.out.stdout.items) : ~e.out.stdout.items[n].wellformed
       IN r.status # "timed_out" =>
             /\ e.proc \in {"spawn_failed", "exited"}
             /\ e.proc = "spawn_failed" =>
                   /\ r.status = "errored"
                   /\ r.error.prefix = "Failed to execute nix-instantiate: "
             /\ e.proc = "exited" /\ e.out.status # 0 =>
                   /\ r.status = "errored"
                   /\ r.error.prefix = ""
                   /\ Utf8Bytes(r.error.text) = e.out.stderr
             /\ e.proc = "exited" /\ e.out.status = 0 /\ ~payload_ok =>
                   /\ r.status = "errored"
                   /\ r.error.prefix = "Failed to deserialize test report: "
             /\ e.proc = "exited" /\ e.out.status = 0 /\ payload_ok =>
                   /\ r.status = "completed"
                   /\ Len(r.tests) = Len(e.out.stdout.items)
                   /\ \A n \in 1..Len(r.tests) : r.tests[n] = e.out.stdout.items[n].test

\* C9 (amended): the same order and cases, where the error of a non-zero exit
\* is stderr decoded as UTF-8 with every invalid byte replaced by U+FFFD: it
\* is stderr as it is exactly when stderr is valid UTF-8.
C9_OutcomeOrderLossyStderr ==
    \A i \in Files : \A k \in ReportsOf(i) :
       LET r == returned[k]
           e == evals[i]
           payload_ok ==
               ~\E n \in 1..Len(e.out.stdout.items) : ~e.out.stdout.items[n].wellformed
           valid_utf8 == \A n \in 1..Len(e.out.stderr) : e.out.stderr[n] < 128
       IN r.status # "timed_out" =>
             /\ e.proc \in {"spawn_failed", "exited"}
             /\ e.proc = "spawn_failed" =>
                   /\ r.status = "errored"
                   /\ r.error.prefix = "Failed to execute nix-instantiate: "
             /\ e.proc = "exited" /\ e.out.status # 0 =>
                   /\ r.status = "errored"
                   /\ r.error.prefix = ""
                   /\ Len(r.error.text) = Len(e.out.stderr)
                   /\ \A n \in 1..Len(e.out.stderr) :
                         r.error.text[n] =
                            (IF e.out.stderr[n] < 128 THEN e.out.stderr[n] ELSE 65533)
                   /\ (Utf8Bytes(r.error.text) = e.out.stderr) <=> valid_utf8
             /\ e.proc = "exited" /\ e.out.status = 0 /\ ~payload_ok =>
                   /\ r.status = "errored"
                   /\ r.error.prefix = "Failed to deserialize test report: "
             /\ e.proc = "exited" /\ e.out.status = 0 /\ payload_ok =>
                   /\ r.status = "completed"
                   /\ Len(r.tests) = Len(e.out.stdout.items)
                   /\ \A n \in 1..Len(r.tests) : r.tests[n] = e.out.stdout.items[n].test

C9_Witness ==
    \E a, b \in 1..Len(returned) :
       /\ returned[a].status = "errored"
       /\ returned[a].error = Str("", <<101, 65533>>)
       /\ returned[b].status = "completed"
       /\ returned[b].tests = <<FailTest, PassTest>>

\* C10: has_issues is true iff at least one report is errored, is timed out,
\* or is completed with at least one failed check; it is false for no report
\* and for completed reports without a failed check.
C10_HasIssuesIffSomeIssue ==
    LET suite == TestSuiteReport(file_reports, run_elapsed)
        failing(r) ==
            \E t \in 1..Len(r.tests) : \E c \in 1..Len(r.tests[t].checks) :
               ~r.tests[t].checks[c].success
        issue(r) ==
            \/ r.status = "errored"
            \/ r.status = "timed_out"
            \/ r.status = "completed" /\ failing(r)
    IN /\ has_issues(suite) <=> \E k \in 1..Len(file_reports) : issue(file_reports[k])
       /\ file_reports = <<>> => ~has_issues(suite)
       /\ (\A k \in 1..Len(file_reports) :
              file_reports[k].status = "completed" /\ ~failing(file_reports[k]))
             => ~has_issues(suite)
       /\ pc = "done" => (has_issues(suite_report) <=> has_issues(suite))

C10_Witness ==
    /\ pc = "done"
    /\ Len(suite_report.reports) >= 2
    /\ suite_report.reports[1].status = "completed"
    /\ failed_count(suite_report.reports[1].tests) = 0
    /\ Last(suite_report.reports).status = "timed_out"
    /\ has_issues(suite_report)

\* C11: the counts partition the reports: processed is the number of
\* reports, succeeded the completed ones without a failed check, failed the
\* completed ones with a failed check, errored and timed out the reports of
\* that status; every report is in exactly one of the four, so processed is
\* the sum of the four, and has_issues holds iff succeeded < processed.
C11_CountsPartitionTheReports ==
    LET suite == TestSuiteReport(file_reports, run_elapsed)
        idx == 1..Len(file_reports)
        failing(r) ==
            \E t \in 1..Len(r.tests) : \E c \in 1..Len(r.tests[t].checks) :
               ~r.tests[t].checks[c].success
        S == {k \in idx : file_reports[k].status = "completed" /\ ~failing(file_reports[k])}
        F == {k \in idx : file_reports[k].status = "completed" /\ failing(file_reports[k])}
        E == {k \in idx : file_reports[k].status = "errored"}
        T == {k \in idx : file_reports[k].status = "timed_out"}
    IN /\ processed_files(suite) = Len(file_reports)
       /\ succeeded_files(suite) = Cardinality(S)
       /\ failed_files(suite) = Cardinality(F)
       /\ errored_files(suite) = Cardinality(E)
       /\ timed_out_files(suite) = Cardinality(T)
       /\ S \cup F \cup E \cup T = idx
       /\ S \cap F = {} /\ S \cap E = {} /\ S \cap T = {}
       /\ F \cap E = {} /\ F \cap T = {} /\ E \cap T = {}
       /\ processed_files(suite) =
             succeeded_files(suite) + failed_files(suite)
                + errored_files(suite) + timed_out_files(suite)
       /\ has_issues(suite) <=> succeeded_files(suite) < processed_files(suite)

C11_Witness ==
    /\ Len(file_reports) = 2
    /\ file_reports[1].status = "completed"
    /\ failed_count(file_reports[1].tests) > 0
    /\ file_reports[2].status = "errored"
    /\ failed_files(TestSuiteReport(file_reports, run_elapsed)) = 1
    /\ errored_files(TestSuiteReport(file_reports, run_elapsed)) = 1

\* C12: when run has completed and the process has exited, its exit code is
\* 0 if the report run returned has no issue and 1 if it has one.
C12_ExitCodeFollowsHasIssues ==
    exit_code # None =>
       LET failing(r) ==
               \E t \in 1..Len(r.tests) : \E c \in 1..Len(r.tests[t].checks) :
                  ~r.tests[t].checks[c].success
           issues ==
               \E k \in 1..Len(suite_report.reports) :
                  \/ suite_report.reports[k].status # "completed"
                  \/ failing(suite_report.reports[k])
       IN /\ pc = "done"
          /\ exit_code = Some(IF issues THEN 1 ELSE 0)

C12_Witness ==
    /\ exit_code = Some(1)
    /\ Len(suite_report.reports) = 2
    /\ suite_report.reports[1].status = "completed"
    /\ failed_count(suite_report.reports[1].tests) = 0
    /\ suite_report.reports[2].status = "completed"
    /\ failed_count(suite_report.reports[2].tests) > 0

\* the bucket of a report and the flag of each bucket
Bucket(r) ==
    IF r.status \in {"errored", "timed_out"} THEN "errored"
    ELSE IF \E t \in 1..Len(r.tests) : \E c \in 1..Len(r.tests[t].checks) :
               ~r.tests[t].checks[c].success
    THEN "failed" ELSE "succeeded"

Flag(cfg, bucket) ==
    IF bucket = "succeeded" THEN cfg.hide_succeeded
    ELSE IF bucket = "failed" THEN cfg.hide_failed
    ELSE cfg.hide_errored

\* C13: for both reporters and every config, a TestFileCompleted event gets
\* no message iff the flag of its report's bucket is set (hide_succeeded for
\* completed without a failed check, hide_failed for completed with one,
\* hide_errored for errored and timed out); the flags of the other two
\* buckets do not change whether a message is returned.
C13_HiddenIffBucketFlagSet ==
    pc = "rendered" /\ report_event.event = "TestFileCompleted" =>
       /\ (message = None) <=> Flag(config, Bucket(report_event.report))
       /\ \A other \in Configs :
             (/\ other.format = config.format
              /\ Flag(other, Bucket(report_event.report))
                    = Flag(config, Bucket(report_event.report)))
             => ((ConfigurableReporter_on(other, report_event) = None) <=> (message = None))

C13_Witness ==
    /\ pc = "rendered"
    /\ config = Config("Json", FALSE, TRUE, FALSE)
    /\ report_event = TestFileCompleted(TimedOut("c.nix", 1, 1))
    /\ message # None

\* C14 as stated: for every config, of either format, a TestSuiteCompleted
\* event gets a message.
C14_SummaryAlwaysRendered ==
    pc = "rendered" /\ report_event.event = "TestSuiteCompleted" => message # None

\* C14 (amended): the hide flags never suppress the summary: with format
\* Human a TestSuiteCompleted event gets a message whatever the flags, and
\* with format Json it gets none whatever the flags.
C14_SummaryRenderedByHuman ==
    pc = "rendered" /\ report_event.event = "TestSuiteCompleted" =>
       /\ config.format = "Human" => message # None /\ Len(message[1]) >= 1
       /\ config.format = "Json" => message = None

C14_Witness ==
    /\ pc = "rendered"
    /\ config = Config("Human", TRUE, TRUE, TRUE)
    /\ report_event.event = "TestSuiteCompleted"
    /\ Len(report_event.report.reports) = 2
    /\ has_issues(report_event.report)
    /\ message # None

\* C15 as stated: for every config a TestFileNotFound and a TestFileInvalid
\* event get a warning message that names the path.
C15_SkipsAlwaysWarned ==
    pc = "rendered" /\ report_event.event \in {"TestFileNotFound", "TestFileInvalid"} =>
       /\ message # None
       /\ message[1][1] = "Warning: '"
       /\ message[1][2] = report_event.path

\* C15 (amended): the hide flags never suppress these events: with format
\* Human each gets a warning message that names the path, whatever the
\* flags, and with format Json each gets no message.
C15_SkipsWarnedByHuman ==
    pc = "rendered" /\ report_event.event \in {"TestFileNotFound", "TestFileInvalid"} =>
       /\ config.format = "Human" =>
             /\ message # None
             /\ message[1][1] = "Warning: '"
             /\ message[1][2] = report_event.path
             /\ message[1][3] = (IF report_event.event = "TestFileNotFound"
                                 THEN "' is not found, skipping.\n"
                                 ELSE "' is not a test file, skipping.\n")
       /\ config.format = "Json" => message = None

C15_Witness ==
    /\ pc = "rendered"
    /\ config = Config("Human", TRUE, TRUE, TRUE)
    /\ report_event = TestFileInvalid("f.nix")
    /\ message = Some(<<"Warning: '", "f.nix", "' is not a test file, skipping.\n">>)

\* C16: the Json reporter returns no message for an event that is not
\* TestFileCompleted, whatever the flags, and exactly one JSON object for a
\* TestFileCompleted event that is not hidden.
C16_JsonOnlyRendersFileReports ==
    pc = "rendered" /\ config.format = "Json" =>
       /\ report_event.event # "TestFileCompleted" => message = None
       /\ (/\ report_event.event = "TestFileCompleted"
           /\ ~Flag(config, Bucket(report_event.report))) =>
             /\ Len(message) = 1
             /\ message[1].json = "object"
             /\ Member(message[1], "status") = Some(JString(report_event.report.status))
             /\ Member(message[1], "file") = Some(JString(report_event.report.file))

C16_Witness ==
    /\ pc = "rendered"
    /\ config.format = "Json"
    /\ report_event.event = "TestFileCompleted"
    /\ report_event.report.status = "errored"
    /\ message # None
    /\ message[1].json = "object"

\* C19 as stated: a completed report written as JSON and read back is equal
\* to the original field for field, file and elapsed included.
C19_RoundTripIsIdentity ==
    (/\ pc = "rendered"
     /\ config.format = "Json"
     /\ report_event.event = "TestFileCompleted"
     /\ report_event.report.status = "completed"
     /\ message # None) =>
       /\ CompletedReportOk(message[1])
       /\ DeserializeCompleted(message[1]) = report_event.report

\* C19 (amended): a completed report written as JSON can be read back as a
\* completed report, and what is read back has the tests of the original,
\* every test and check field for field, while its file is the empty string
\* and its elapsed is 0: the two are not read from the text.
C19_RoundTripKeepsTests ==
    (/\ pc = "rendered"
     /\ config.format = "Json"
     /\ report_event.event = "TestFileCompleted"
     /\ report_event.report.status = "completed"
     /\ message # None) =>
       /\ Member(message[1], "file") = Some(JString(report_event.report.file))
       /\ Member(message[1], "elapsed") = Some(JNumber(report_event.report.elapsed))
       /\ CompletedReportOk(message[1])
       /\ LET back == DeserializeCompleted(message[1])
              orig == report_event.report
          IN /\ back.status = "completed"
             /\ Len(back.tests) = Len(orig.tests)
             /\ \A t \in 1..Len(orig.tests) :
                   /\ back.tests[t].success = orig.tests[t].success
                   /\ back.tests[t].path = orig.tests[t].path
                   /\ back.tests[t].location = orig.tests[t].location
                   /\ Len(back.tests[t].checks) = Len(orig.tests[t].checks)
                   /\ \A c \in 1..Len(orig.tests[t].checks) :
                         /\ back.tests[t].checks[c].name = orig.tests[t].checks[c].name
                         /\ back.tests[t].checks[c].success = orig.tests[t].checks[c].success
                         /\ back.tests[t].checks[c].failure = orig.tests[t].checks[c].failure
                         /\ back.tests[t].checks[c].location = orig.tests[t].checks[c].location
             /\ back.file = ""
             /\ back.elapsed = 0

C19_Witness ==
    /\ pc = "rendered"
    /\ config.format = "Json"
    /\ report_event = TestFileCompleted(Completed("a.nix", <<FailTest, PassTest>>, 1))
    /\ message # None
    /\ DeserializeCompleted(message[1]) = Completed("", <<FailTest, PassTest>>, 0)

\* the entries a search must give: for each path of the input, NotFound if
\* it does not exist; Valid or Invalid by its suffix if it is a regular
\* file; Valid(f) for each file f found in it if it is a directory
Expected ==
    {NotFound(paths[n]) : n \in {m \in 1..Len(paths) : ~Exists(fs, paths[m])}}
        \cup {Valid(paths[n]) : n \in {m \in 1..Len(paths) :
                   IsFile(fs, paths[m]) /\ EndsWith(paths[m], TestSuffix)}}
        \cup {Invalid(paths[n]) : n \in {m \in 1..Len(paths) :
                   IsFile(fs, paths[m]) /\ ~EndsWith(paths[m], TestSuffix)}}
        \cup UNION {{Valid(file) : file \in FoundInDir(fs, paths[n])} :
                      n \in {m \in 1..Len(paths) : paths[m] \in fs.dirs}}

KindOrder(kind) == IF kind = "Invalid" THEN 0 ELSE IF kind = "NotFound" THEN 1 ELSE 2

\* C17: the result of search_test_files is sorted by (rank, name) with
\* Invalid < NotFound < Valid and holds no two entries with the same kind
\* and path; so it is the same for every list with the same paths (any
\* order, any repetition) and every order the collaborator yields files in.
C17_SortedWithoutDuplicates ==
    pc = "searched" =>
       /\ \A i, j \in 1..Len(test_files) :
             i < j =>
                /\ KindOrder(test_files[i].kind) <= KindOrder(test_files[j].kind)
                /\ test_files[i].kind = test_files[j].kind =>
                      StrLess(test_files[i].path, test_files[j].path)
                /\ test_files[i] # test_files[j]
       /\ \A other \in PathLists :
             {other[n] : n \in 1..Len(other)} = {paths[n] : n \in 1..Len(paths)} =>
                \A found \in Listings(fs, other) :
                   search_test_files(fs, other, found) = test_files

C17_Witness ==
    /\ pc = "searched"
    /\ paths = <<DirD, DXTestNix>>
    /\ test_files = <<Valid(DXTestNix), Valid(DYTestNix)>>

\* C18: each path of the input is classified: one that does not exist gives
\* NotFound; a regular file gives Valid iff it ends with _test.nix and
\* Invalid otherwise; a directory gives Valid(f) for every file f the
\* collaborator finds for it and nothing else, so nothing if none is found.
C18_EachPathClassified ==
    pc = "searched" => {test_files[n] : n \in 1..Len(test_files)} = Expected

C18_Witness ==
    /\ pc = "searched"
    /\ paths = <<DirD, FlakeNix>>
    /\ fs = FileSystem({DZNix}, {DirD})
    /\ test_files = <<NotFound(FlakeNix)>>

\* the evaluation of this path has exited with status 0 and these tests
EvaluatedTo(path, tests) ==
    \E i \in Files :
       /\ test_files[i] = Valid(path)
       /\ evals[i].proc = "exited"
       /\ evals[i].out.status = 0
       /\ evals[i].out.stdout = Payload([n \in 1..Len(tests) |-> Item(TRUE, tests[n])])

\* C20: in the scenario (a_test.nix with all checks passing, b_test.nix with
\* one failed check, missing.nix absent, two threads, no timeout), whatever
\* the order in which the two evaluations end, a run that has ended has
\* emitted two TestFileCompleted events, one TestFileNotFound event and one
\* TestSuiteCompleted event whose counts are processed 2, succeeded 1,
\* failed 1, errored 0, timed out 0, with has_issues true, and the exit code
\* is 1.
C20_ScenarioTwoFilesOneMissing ==
    (/\ exit_code # None
     /\ EvaluatedTo(ATestNix, <<PassTest>>)
     /\ EvaluatedTo(BTestNix, <<FailTest, PassTest>>)) =>
       /\ Cardinality(EventsOf({"TestFileCompleted"})) = 2
       /\ \E a, b \in EventsOf({"TestFileCompleted"}) :
             /\ events[a].report.file = ATestNix
             /\ events[a].report.status = "completed"
             /\ events[b].report.file = BTestNix
             /\ events[b].report.status = "completed"
       /\ Cardinality(EventsOf({"TestFileNotFound"})) = 1
       /\ \E k \in EventsOf({"TestFileNotFound"}) : events[k].path = MissingNix
       /\ EventsOf({"TestFileInvalid"}) = {}
       /\ Cardinality(EventsOf({"TestSuiteCompleted"})) = 1
       /\ Len(events) = 4
       /\ LET summary == Last(events).report
          IN /\ Last(events).event = "TestSuiteCompleted"
             /\ processed_files(summary) = 2
             /\ succeeded_files(summary) = 1
             /\ failed_files(summary) = 1
             /\ errored_files(summary) = 0
             /\ timed_out_files(summary) = 0
             /\ has_issues(summary)
       /\ exit_code = Some(1)

C20_Witness ==
    /\ exit_code = Some(1)
    /\ EvaluatedTo(ATestNix, <<PassTest>>)
    /\ EvaluatedTo(BTestNix, <<FailTest, PassTest>>)
    /\ test_files = <<NotFound(MissingNix), Valid(ATestNix), Valid(BTestNix)>>
    /\ events[1] = TestFileNotFound(MissingNix)
    /\ events[2].report.file = BTestNix
    /\ events[3].report.file = ATestNix

\* C21: for the empty list and for every list without a Valid entry, run
\* never calls the evaluator and emits no TestFileCompleted event; when it
\* has returned it has emitted exactly one TestSuiteCompleted event, after
\* one warning per entry, whose counts are all 0 and whose has_issues is
\* false, and the process exits with code 0.
C21_NoValidEntryEmptySummary ==
    ValidFiles = {} =>
       /\ EventsOf({"TestFileCompleted"}) = {}
       /\ calls = <<>>
       /\ file_reports = <<>>
       /\ Cardinality(EventsOf({"TestSuiteCompleted"})) = (IF pc = "done" THEN 1 ELSE 0)
       /\ pc = "done" =>
             /\ Len(events) = Len(test_files) + 1
             /\ Last(events).event = "TestSuiteCompleted"
             /\ LET summary == Last(events).report
                IN /\ processed_files(summary) = 0
                   /\ succeeded_files(summary) = 0
                   /\ failed_files(summary) = 0
                   /\ errored_files(summary) = 0
                   /\ timed_out_files(summary) = 0
                   /\ ~has_issues(summary)
       /\ exit_code # None => exit_code = Some(0)

C21_Witness ==
    /\ Len(test_files) = 2
    /\ test_files[1].kind = "Invalid"
    /\ test_files[2].kind = "NotFound"
    /\ Len(events) = 3
    /\ Last(events).event = "TestSuiteCompleted"
    /\ exit_code = Some(0)

\* C22: every run is started with num_threads >= 1: a 0, from the command
\* line or from the configuration file, never reaches the runner.
C22_ConcurrencyAtLeastOne == pc = "running" => num_threads >= 1

\* C23: apply_to merges field by field and the command line wins: each of
\* num_threads, timeout, format, hide_succeeded, hide_failed and
\* hide_errored of the result is the value of the command line when it
\* gives one and the value of the base otherwise; with no option given the
\* result is the base, with all of them given nothing of the base is left.
C23_CommandLineWinsPerField ==
    pc = "merged" =>
       LET a == cli.config_args
           base == file_config[1]
           merged == loaded[1]
           given(opt, value) == opt # None /\ opt[1] = value
       IN /\ IF a.num_threads = None
             THEN merged.runner.num_threads = base.runner.num_threads
             ELSE given(a.num_threads, merged.runner.num_threads)
          /\ IF a.timeout = None
             THEN merged.runner.timeout = base.runner.timeout
             ELSE given(a.timeout, merged.runner.timeout)
          /\ IF a.format = None
             THEN merged.report.format = base.report.format
             ELSE \/ given(a.format, "json") /\ merged.report.format = "Json"
                  \/ given(a.format, "human") /\ merged.report.format = "Human"
          /\ IF a.hide_succeeded = None
             THEN merged.report.hide_succeeded = base.report.hide_succeeded
             ELSE given(a.hide_succeeded, merged.report.hide_succeeded)
          /\ IF a.hide_failed = None
             THEN merged.report.hide_failed = base.report.hide_failed
             ELSE given(a.hide_failed, merged.report.hide_failed)
          /\ IF a.hide_errored = None
             THEN merged.report.hide_errored = base.report.hide_errored
             ELSE given(a.hide_errored, merged.report.hide_errored)
          /\ cli = NoArgs => merged = base
          /\ (\A f \in DOMAIN a : a[f] # None) =>
                \A other \in BaseConfigs :
                   apply_to(a, other) = merged

\* one option of each group is given and differs from the base, the others
\* are not given
C23_Witness ==
    /\ pc = "merged"
    /\ cli.config_args = ConfigArgs(Some(1), None, Some("json"), None, Some(TRUE), None)
    /\ file_config = Some(MainConfig(RunnerConfig(MaxThreads, 0),
                                     Config("Human", TRUE, FALSE, TRUE)))
    /\ loaded = Some(MainConfig(RunnerConfig(1, 0), Config("Json", TRUE, TRUE, TRUE)))

\* the directories that hold a .nix-tests.toml
WithToml == {k \in 1..Len(dirs) : dirs[k].toml # None}

\* the directories that hold flake.lock or .git
Marked == {k \in 1..Len(dirs) : dirs[k].markers # {}}

\* what reading the .nix-tests.toml of the closest of these directories
\* gives, Ok(None) when there is none
ClosestOf(S) ==
    IF S = {} THEN Ok(None, 0)
    ELSE TryFrom(dirs[Min(S)].toml[1], num_cpus, Min(S))

\* C24 as stated: search_in returns the configuration of the closest
\* directory of the whole chain up to the root that holds .nix-tests.toml,
\* however many levels up, and None when no directory holds one.
C24_ClosestOnTheWholeChain ==
    search_result # None => search_result[1] = ClosestOf(WithToml)

\* C24: search_in returns the configuration of the closest directory that
\* holds .nix-tests.toml among the directories from dir up to the first one
\* that holds flake.lock or .git (up to the root when there is none),
\* however many levels up it is: a nearer configuration is preferred to a
\* farther one, and the result is None when none of these directories
\* holds one.
C24_ClosestUpToTheBoundary ==
    search_result # None =>
       LET last == IF Marked = {} THEN Len(dirs) ELSE Min(Marked)
       IN search_result[1] = ClosestOf({k \in WithToml : k <= last})

\* the configuration is found two levels up, past directories without a
\* mark, and is preferred to nothing nearer
C24_Witness ==
    /\ Len(dirs) = 3
    /\ WithToml = {3}
    /\ Marked = {}
    /\ search_result = Some(Ok(Some(MainConfig(RunnerConfig(0, 0), DefaultConfig)), 3))

\* C25: when the search comes to a directory that holds flake.lock or .git,
\* it goes no further: without a .nix-tests.toml in it the result is None,
\* with one the result is that file's configuration, and in no case is a
\* .nix-tests.toml of a directory above a marked one read.
C25_SearchStopsAtTheBoundary ==
    search_result # None =>
       \A b \in Marked :
          /\ search_result[1].read <= b
          /\ (\A k \in 1..(b - 1) : dirs[k].toml = None /\ dirs[k].markers = {}) =>
                IF dirs[b].toml = None
                THEN search_result[1] = Ok(None, 0)
                ELSE search_result[1] = TryFrom(dirs[b].toml[1], num_cpus, b)

\* a marked directory without configuration below one that has a
\* configuration
C25_Witness ==
    /\ Len(dirs) = 3
    /\ dirs[1] = Dir(None, {})
    /\ dirs[2] = Dir(None, {".git"})
    /\ dirs[3] = Dir(Some(Toml(None)), {})
    /\ search_result = Some(Ok(None, 0))
    /\ pc = "running"
    /\ num_threads = num_cpus

\* C26: a failure of the discovery collaborator is fatal: search_test_files
\* gives main no list, not even of the paths classified before the
\* failure, no evaluation is dispatched and no event is emitted, the
\* process ends with code 1 and nothing happens after that.
C26_DiscoveryFailureIsFatal ==
    pc = "search_failed" =>
       /\ test_files = <<>>
       /\ evals = <<>>
       /\ in_progress = {}
       /\ calls = <<>>
       /\ events = <<>>
       /\ exit_code = Some(1)
       /\ ~ENABLED MainNext

\* the directory is the last path: the paths before it were classified
\* when the collaborator failed
C26_Witness ==
    /\ pc = "search_failed"
    /\ paths = <<ATestNix, DirD>>
    /\ exit_code = Some(1)

\* C27: a process that a signal has ended during a run has reported a
\* truncated summary: its last event is a TestSuiteCompleted that holds the
\* reports collected so far (and it dispatches nothing after the signal).
C27_SignalReportsTruncatedSummary ==
    pc = "signalled" =>
       /\ events # <<>>
       /\ Last(events).event = "TestSuiteCompleted"
       /\ Last(events).report.reports = file_reports
       /\ ~ENABLED MainNext

\* the entry's warning is among the events
Warned(j) == \E k \in 1..Len(events) : events[k] = SkipEvent(test_files[j])

\* C28 as stated: whatever the position of the NotFound and Invalid entries
\* in the list, all their events are emitted before the evaluator is called
\* for the first time.
C28_SkipsBeforeTheFirstEvaluation ==
    calls # <<>> => \A j \in SkippedFiles : Warned(j)

\* C28: the event of a NotFound or Invalid entry is emitted before the
\* evaluation of any Valid entry that follows it in the list is dispatched,
\* whatever the concurrency; so when these entries precede the Valid ones,
\* as in the sort order of the classifier, all their events are emitted
\* before the first evaluation is dispatched.
C28_SkipsBeforeTheEvaluationsThatFollow ==
    /\ \A i \in ValidFiles : evals[i].st # "none" =>
          \A j \in SkippedFiles : j < i => Warned(j)
    /\ (\A j \in SkippedFiles, i \in ValidFiles : j < i) =>
          ((\E i \in ValidFiles : evals[i].st # "none") =>
              \A j \in SkippedFiles : Warned(j))

\* the list is in sort order and its evaluation is in the queue, not yet
\* polled, after the warning
C28_Witness ==
    /\ Len(test_files) = 2
    /\ test_files[1].kind = "Invalid"
    /\ test_files[2].kind = "Valid"
    /\ evals[2].st = "created"
    /\ calls = <<>>
    /\ events = <<TestFileInvalid(test_files[1].path)>>

\* C29: the evaluations are dispatched in the order of the Valid entries in
\* the list: the evaluator is called with their paths in that order, and a
\* Valid entry is never in the queue while a Valid entry before it has not
\* been put there; the order in which the evaluations end is free.
C29_DispatchedInListOrder ==
    LET valid == SelectIdx(LAMBDA i : i \in ValidFiles, 1, Len(test_files))
    IN /\ Len(calls) <= Len(valid)
       /\ \A n \in 1..Len(calls) : calls[n] = test_files[valid[n]].path
       /\ \A i, j \in ValidFiles :
             i < j /\ evals[j].st # "none" => evals[i].st # "none"
       /\ \A i, j \in ValidFiles :
             i < j /\ CallsFor(j) # {} => CallsFor(i) # {}

\* two evaluations called in list order, the second one ends first
C29_Witness ==
    /\ Len(test_files) = 2
    /\ ValidFiles = {1, 2}
    /\ calls = <<test_files[1].path, test_files[2].path>>
    /\ Len(returned) = 2
    /\ returned[1].file = test_files[2].path
    /\ returned[2].file = test_files[1].path

\* the evaluation of entry i has finished: its process has exited or its
\* deadline has passed, and its future has not been polled since
Finished(i) ==
    /\ i \in in_progress
    /\ evals[i].st = "waiting"
    /\ PollOutput(evals[i], timeout) # "pending"

\* C30: a finished evaluation's TestFileCompleted event waits for no other
\* evaluation: while run fills its queue the next pull is possible, and once
\* the queue is filled the step that emits the event is possible, whatever
\* the state of the other evaluations; and the events emitted so far are
\* those of all the reports returned so far, in the same order.
C30_CompletedEventDoesNotWait ==
    /\ \A i \in Files :
          Finished(i) => IF Filled THEN ENABLED Complete(i) ELSE ENABLED PullNext
    /\ LET completed == SelectIdx(LAMBDA k : k \in EventsOf({"TestFileCompleted"}),
                                  1, Len(events))
       IN /\ Len(completed) = Len(returned)
          /\ \A n \in 1..Len(completed) : events[completed[n]].report = returned[n]

\* the event of the second file is out while the first one, dispatched
\* before it, is still running and a finished one is about to be reported
C30_Witness ==
    /\ pc = "running"
    /\ Len(test_files) = 2
    /\ evals[1].st = "waiting"
    /\ evals[1].proc = "running"
    /\ evals[2].st = "returned"
    /\ events = <<TestFileCompleted(returned[1])>>
    /\ returned[1].file = test_files[2].path

\* C31: emission is serialized: at most one call of the reporter (render
\* plus print of its message) is in progress at any time of a run, it is
\* the call for the oldest event not yet delivered, and the calls that have
\* returned are those of the events emitted so far, in the order of emission
C31_EmissionIsSerialized ==
    /\ Len(report_event) <= 1
    /\ Len(reported) + Len(report_event) <= Len(events)
    /\ \A n \in 1..Len(reported) : reported[n].event = events[n]
    /\ report_event # <<>> => report_event[1] = events[Len(reported) + 1]

\* the event of one evaluation is being delivered while another evaluation
\* has finished as well
C31_Witness ==
    /\ Len(report_event) = 1
    /\ report_event[1].event = "TestFileCompleted"
    /\ \E i \in Files : Finished(i)

\* the reports carried by the TestFileCompleted events, in the order in
\* which the events were emitted
CompletedReports ==
    LET completed == SelectSeq(events, LAMBDA e : e.event = "TestFileCompleted")
    IN [k \in 1..Len(completed) |-> completed[k].report]

\* C32: the summary carried by TestSuiteCompleted contains exactly the
\* outcomes that were emitted as TestFileCompleted events, each once and in
\* the order of emission, and the value run returns is the summary carried
\* by TestSuiteCompleted
C32_SummaryIsTheEmittedOutcomes ==
    pc = "done" =>
        /\ suite_report.reports = CompletedReports
        /\ Last(events).event = "TestSuiteCompleted"
        /\ Last(events).report = suite_report

\* two files completed, the second of the list first
C32_Witness ==
    /\ pc = "done"
    /\ Len(suite_report.reports) = 2
    /\ suite_report.reports[1].file = test_files[2].path
    /\ suite_report.reports[1] # suite_report.reports[2]

\* the derived counts and has_issues of a summary
Counts(suite) ==
    <<processed_files(suite), succeeded_files(suite), failed_files(suite),
      errored_files(suite), timed_out_files(suite), has_issues(suite)>>

\* the summary with its reports in the order p
Permuted(suite, p) ==
    [suite EXCEPT !.reports = [k \in 1..Len(suite.reports) |-> suite.reports[p[k]]]]

\* C33: the derived counts (processed, succeeded, failed, errored, timed
\* out) and has_issues of a summary are the same for every permutation of
\* its sequence of outcomes
C33_CountsIgnoreTheOrder ==
    report_event.event = "TestSuiteCompleted" =>
        \A p \in Permutations(1..Len(report_event.report.reports)) :
            Counts(Permuted(report_event.report, p)) = Counts(report_event.report)

\* a summary of a clean file followed by a file with an issue has been
\* rendered
C33_Witness ==
    /\ pc = "rendered"
    /\ report_event.event = "TestSuiteCompleted"
    /\ Len(report_event.report.reports) = 2
    /\ ~IsIssue(report_event.report.reports[1])
    /\ report_event.report.reports[2].status = "timed_out"
    /\ Counts(report_event.report) = <<2, 1, 0, 0, 1, TRUE>>

\* every check of the test has success true
AllChecksPass(test) == \A k \in 1..Len(test.checks) : test.checks[k].success

Warnings == {"TestFileNotFound", "TestFileInvalid"}

\* C35: warnings for skipped files (TestFileNotFound, TestFileInvalid) are
\* written to a diagnostic stream that is distinct from the normal report
\* stream, which carries the messages for TestFileCompleted and
\* TestSuiteCompleted
C35_WarningsOnADiagnosticStream ==
    \A w, r \in 1..Len(reported) :
        /\ reported[w].event.event \in Warnings
        /\ reported[w].stream # "none"
        /\ reported[r].event.event \notin Warnings
        /\ reported[r].stream # "none"
        => reported[w].stream # reported[r].stream

\* a line of the summary for a count, only when the count is positive
CountLine(n, text) == IF n > 0 THEN <<n, text>> ELSE <<>>

\* C36: the Human rendering of TestSuiteCompleted selects its text from the
\* counts: "No test files found" iff processed = 0; "All tests passed" with
\* the total time iff processed > 0 and failed = errored = timed out = 0;
\* otherwise the succeeded count always, then a line for the errored, the
\* failed and the timed-out files in that order, each only when its count
\* is > 0, then the total time. It says "All tests passed" only when
\* has_issues is false.
C36_HumanSummaryFollowsTheCounts ==
    (pc = "rendered" /\ config.format = "Human"
        /\ report_event.event = "TestSuiteCompleted") =>
        LET suite == report_event.report
            processed == processed_files(suite)
            errored == errored_files(suite)
            failed == failed_files(suite)
            timed_out == timed_out_files(suite)
            clean == failed = 0 /\ errored = 0 /\ timed_out = 0
        IN /\ message # None
           /\ Len(message[1]) = 1 <=> processed = 0
           /\ Len(message[1]) = 3 <=> (processed > 0 /\ clean)
           /\ message[1] =
                 IF processed = 0 THEN <<"No test files found\n">>
                 ELSE IF clean
                 THEN <<"All tests passed (", suite.elapsed, "ms)\n">>
                 ELSE <<succeeded_files(suite), " file(s) succeeded\n">>
                      \o CountLine(errored, " file(s) had errors\n")
                      \o CountLine(failed, " file(s) failed\n")
                      \o CountLine(timed_out, " file(s) timed out\n")
                      \o <<"Total time: ", suite.elapsed, "ms\n">>
           /\ Len(message[1]) = 3 => ~has_issues(suite)

\* the summary of a failed file and an errored file has been rendered:
\* nothing succeeded, the errored line comes first
C36_Witness ==
    /\ pc = "rendered"
    /\ config.format = "Human"
    /\ report_event.event = "TestSuiteCompleted"
    /\ Len(report_event.report.reports) = 2
    /\ report_event.report.reports[1].status = "completed"
    /\ report_event.report.reports[2].status = "errored"
    /\ Len(message[1]) = 9
    /\ message[1][1] = 0
    /\ message[1][4] = " file(s) had errors\n"
    /\ message[1][6] = " file(s) failed\n"

\* run's task is suspended: no step of run is possible until a process
\* exits or a deadline passes
RunWaits == pc = "running" /\ ~ENABLED RunStep

\* every entry of the list has been pulled from the stream, dispatched or
\* skipped
AllConsumed == pos = Len(test_files)

AllDispatched == \A i \in ValidFiles : evals[i].st # "none"

\* C37: no slot stays idle while work is queued: whenever run is waiting
\* for in-flight evaluations to finish, either exactly num_threads
\* evaluations are in flight or every entry of the list has been consumed
\* (dispatched or skipped); hence, with at least one slot, every Valid file
\* is eventually dispatched when the evaluations before it terminate (as
\* they do under LiveSpec)
C37_NoSlotIdleWhileWorkQueued ==
    /\ [](RunWaits => (Cardinality(InFlight) = num_threads \/ AllConsumed))
    /\ (num_threads >= 1) ~> AllDispatched

\* run waits with all its slots taken and a Valid file still queued
C37_Witness ==
    /\ RunWaits
    /\ num_threads >= 1
    /\ Cardinality(InFlight) = num_threads
    /\ ~AllConsumed
    /\ ~AllDispatched

\* C38: when a shutdown signal ends the process during a run, no evaluator
\* process started by the run is left running: every process in flight is
\* killed before the process exits, as it is on a timeout. A process of the
\* run is running only while run is and its evaluation is in flight.
C38_NoProcessOutlivesTheRun ==
    \A i \in DOMAIN evals :
        evals[i].proc = "running" => (pc = "running" /\ i \in InFlight)

\* a signal has ended the process while an evaluation was waiting for its
\* process: the process has been killed
C38_Witness ==
    /\ pc = "signalled"
    /\ \E i \in DOMAIN evals :
          /\ evals[i].st = "waiting"
          /\ evals[i].proc = "killed"

====
